---- MODULE Spec2Model ----
(***************************************************************************)
(* Planner-Executor agent of examples/python-planner-executor/main.py:     *)
(* PlannerExecutorAgent.run, _create_plan, _execute_plan and               *)
(* _resolve_references, and the ReAct agent of                             *)
(* examples/python-react-pattern/main.py: ReactAgent.run, _parse_response  *)
(* and _execute_action, as state machines.                                 *)
(*                                                                         *)
(* The specifications:                                                     *)
(*   Spec        calls of PlannerExecutorAgent.run on one agent: planning, *)
(*               execution, replanning, synthesis;                         *)
(*   SpecExec    one call of _execute_plan on a plan drawn from ExecPlans; *)
(*   SpecFrames  two interleaved calls of _execute_plan on one agent;      *)
(*   SpecReact   one call of ReactAgent.run;                               *)
(*   SpecReactRuns  calls of ReactAgent.run on one agent;                  *)
(*   SpecRegistry   register and execute on one ToolRegistry               *)
(*               (examples/python-multi-tool/main.py);                     *)
(*   SpecWorker  process on one worker agent                               *)
(*               (examples/python-multi-agent/main.py);                    *)
(*   SpecBreaker calls of CircuitBreaker.call, and SpecRetry one call of a *)
(*               function wrapped by retry_with_backoff                    *)
(*               (examples/python-error-handling/main.py);                 *)
(*   SpecTracer  calls of tools wrapped by ToolTracer.trace_tool_call      *)
(*               (scripts/tool_tracer.py);                                 *)
(*   SpecManager one call of ManagerAgent.process                          *)
(*               (examples/python-multi-agent/main.py);                    *)
(*   SpecInterleaved  two interleaved calls of ReactAgent.run on one agent;*)
(*   SpecLimiter calls of the RateLimiter methods and of                   *)
(*               ProductionAgent.chat (examples/python-production/main.py).*)
(* SpecFair, SpecExecFair and SpecReactFair are Spec, SpecExec and         *)
(* SpecReact with the fairness a                                           *)
(* sequential interpreter gives: an enabled step of the call is eventually *)
(* taken (every tool call and client call returns or raises).              *)
(***************************************************************************)
EXTENDS Integers, Sequences, FiniteSets, TLC

VARIABLES
    pc,                 \* position of the control flow
    max_replans,        \* self.max_replans (constructor argument)
    replans_used,       \* run: local replans_used
    execution_results,  \* run: local execution_results (the latest report)
    outcome,            \* what run() has produced: "running" until it ends
    plan,               \* the plan handed to _execute_plan
    results,            \* _execute_plan: results, step_num -> ExecutionResult
    context,            \* _execute_plan: context, "stepN" -> output
    remaining_steps,    \* _execute_plan: remaining_steps
    ready_steps,        \* _execute_plan: ready_steps of the current batch
    batch_pos,          \* position of the for loop in ready_steps
    resolved_input,     \* _execute_plan: resolved_input of the current step
    executed,           \* history: the steps executed by this call, in order,
                        \* each with the input it was given and its result
    planner_calls,      \* history: calls of the reasoning client for a plan
    failed_attempts,    \* history: attempts whose report held a failure
    last_response,      \* history: the latest response of the planning call
    prior_results,      \* history: the previous results given to that call,
                        \* as the prompt of _create_plan lists them
    reports,            \* history: the reports of this run's attempts
    runs,               \* history: calls of run() on the agent, this one included
    earlier_report,     \* history: the last report of the runs before this one
    frames,             \* SpecFrames: the locals of each call of _execute_plan
    react_pc,           \* ReactAgent.run: position of the control flow
    max_iterations,     \* ReactAgent: self.max_iterations
    iteration,          \* ReactAgent.run: the loop variable of line 56
    conversation_history, \* ReactAgent: self.conversation_history
    react_result,       \* what ReactAgent.run has produced
    llm_calls,          \* history: calls of _call_llm in this run
    tool_calls,         \* history: calls of a registered tool in this run
    prompts,            \* history: the conversation of each prompt of this run
    replies,            \* history: the responses _call_llm returned in this run
    react_runs,         \* history: calls of ReactAgent.run, this one included
    earlier_records,    \* history: records the run before this one left
    registry_tools,     \* ToolRegistry.tools, name -> Tool
    registry_outcome,   \* what the last call of register or execute gave
    agent_name,         \* Agent.name of the worker agent
    message_history,    \* Agent.message_history of that agent
    process_outcome,    \* what the last call of process gave
    failure_threshold,  \* CircuitBreaker.failure_threshold
    recovery_timeout,   \* CircuitBreaker.recovery_timeout
    state,              \* CircuitBreaker.state
    failure_count,      \* CircuitBreaker.failure_count
    last_failure_time,  \* CircuitBreaker.last_failure_time, -1 for None
    success_count,      \* CircuitBreaker.success_count
    now,                \* time.time()
    breaker_calls,      \* history: calls of CircuitBreaker.call
    func_calls,         \* history: invocations of the wrapped function
    call_outcome,       \* what the last call of CircuitBreaker.call gave
    func,               \* the function retry_with_backoff wraps
    max_retries,        \* retry_with_backoff: max_retries
    initial_delay,      \* retry_with_backoff: initial_delay
    backoff_factor,     \* retry_with_backoff: backoff_factor
    exceptions,         \* retry_with_backoff: exceptions
    expression,         \* the argument of the call of the wrapper
    attempt,            \* wrapper: attempt
    delay,              \* wrapper: delay
    invocations,        \* history: what each invocation of func gave
    sleeps,             \* history: the arguments of time.sleep
    retry_outcome,      \* what the call of the wrapper gave
    tracer_calls,       \* ToolTracer.calls
    call_counter,       \* ToolTracer.call_counter
    tracer_outcome,     \* what the last call of a wrapped tool gave its caller
    manager_pc,         \* position in ManagerAgent.process
    verbose,            \* Agent.verbose of the manager
    plan_response,      \* what _call_llm answered to the planning prompt
    delegation_plan,    \* process: plan
    plan_pos,           \* _execute_plan: index of the step of the for loop
    manager_results,    \* _execute_plan: results, agent -> content
    shared_context,     \* ManagerAgent.shared_context
    dispatched,         \* history: the task messages sent to workers
    manager_outcome,    \* what process gave
    shared_history,     \* self.conversation_history of the agent two calls of run share
    shared_iterations,  \* self.max_iterations of that agent
    calls,              \* the two calls of run: position, iteration, step in hand, prompts built
    capacity,           \* RateLimiter.capacity, the requests per minute
    tokens,             \* RateLimiter.tokens, counted in sixtieths of a token
    last_update,        \* RateLimiter.last_update, in seconds
    limiter_now,        \* time.time() of the rate limiter, in seconds
    limiter_outcome,    \* what the last call of a RateLimiter method gave
    chat_calls,         \* calls of ProductionAgent.chat so far
    llm_requests,       \* calls of client.chat.completions.create so far
    total_requests,     \* MetricsCollector.total_requests
    total_errors,       \* MetricsCollector.total_errors
    chat_outcome        \* what the last call of ProductionAgent.chat gave

vars == <<pc, max_replans, replans_used, execution_results, outcome, plan,
          results, context, remaining_steps, ready_steps, batch_pos,
          resolved_input, executed, planner_calls, failed_attempts,
          last_response, prior_results, reports, runs, earlier_report,
          frames, react_pc, max_iterations, iteration, conversation_history,
          react_result, llm_calls, tool_calls, prompts, replies, react_runs,
          earlier_records, registry_tools, registry_outcome,
          agent_name, message_history, process_outcome,
          failure_threshold, recovery_timeout, state, failure_count,
          last_failure_time, success_count, now, breaker_calls, func_calls,
          call_outcome,
          func, max_retries, initial_delay, backoff_factor, exceptions,
          expression, attempt, delay, invocations, sleeps, retry_outcome,
          tracer_calls, call_counter, tracer_outcome,
          manager_pc, verbose, plan_response, delegation_plan, plan_pos, manager_results, shared_context, dispatched, manager_outcome,
          shared_history, shared_iterations, calls,
          capacity, tokens, last_update, limiter_now, limiter_outcome, chat_calls, llm_requests, total_requests, total_errors, chat_outcome>>

\* the variables of ReactAgent
reactVars == <<react_pc, max_iterations, iteration, conversation_history,
               react_result, llm_calls, tool_calls, prompts, replies,
               react_runs, earlier_records>>

\* the variables of ToolRegistry
registryVars == <<registry_tools, registry_outcome>>

\* the variables of a worker agent
workerVars == <<agent_name, message_history, process_outcome>>

\* the variables of a CircuitBreaker
breakerVars == <<failure_threshold, recovery_timeout, state, failure_count,
                 last_failure_time, success_count, now, breaker_calls,
                 func_calls, call_outcome>>

\* the variables of a call of a function wrapped by retry_with_backoff
retryVars == <<func, max_retries, initial_delay, backoff_factor, exceptions,
               expression, attempt, delay, invocations, sleeps,
               retry_outcome>>

\* the variables of a ToolTracer
tracerVars == <<tracer_calls, call_counter, tracer_outcome>>

\* the variables of a ManagerAgent
managerVars == <<manager_pc, verbose, plan_response, delegation_plan, plan_pos, manager_results, shared_context, dispatched, manager_outcome>>

\* the variables of two interleaved calls of ReactAgent.run
interleavedVars == <<shared_history, shared_iterations, calls>>

\* the variables of the RateLimiter and of ProductionAgent.chat
limiterVars ==
    <<capacity, tokens, last_update, limiter_now, limiter_outcome, chat_calls,
      llm_requests, total_requests, total_errors, chat_outcome>>

\* the variables of the tracer, the manager and the limiter
lastVars == <<tracerVars, managerVars, interleavedVars, limiterVars>>

\* the variables of the components beside the two agents
laterVars == <<registryVars, workerVars, breakerVars, retryVars, lastVars>>

\* the variables of the specifications that are not about one call of
\* PlannerExecutorAgent.run
outsideRun == <<frames, reactVars, laterVars>>

\* the variables of Spec and SpecExec
runVars == <<pc, max_replans, replans_used, execution_results, outcome, plan,
             results, context, remaining_steps, ready_steps, batch_pos,
             resolved_input, executed, planner_calls, failed_attempts,
             last_response, prior_results, reports, runs, earlier_report>>

\* the variables that are not about two calls of _execute_plan
outsideFrames == <<runVars, reactVars, laterVars>>

\* the variables that are not about ReactAgent
outsideReact == <<runVars, frames, laterVars>>

\* the variables of the two agents
agentsVars == <<runVars, frames, reactVars>>

\* the variables that are not about ToolRegistry
outsideRegistry == <<agentsVars, workerVars, breakerVars, retryVars,
    lastVars>>

\* the variables that are not about a worker agent
outsideWorker == <<agentsVars, registryVars, breakerVars, retryVars,
    lastVars>>

\* the variables that are not about a CircuitBreaker
outsideBreaker == <<agentsVars, registryVars, workerVars, retryVars,
    lastVars>>

\* the variables that are not about retry_with_backoff
outsideRetry == <<agentsVars, registryVars, workerVars, breakerVars,
    lastVars>>

\* the variables that are not about tracerVars
outsideTracer == <<agentsVars, registryVars, workerVars, breakerVars, retryVars,
    managerVars,
    interleavedVars,
    limiterVars>>

\* the variables that are not about managerVars
outsideManager == <<agentsVars, registryVars, workerVars, breakerVars, retryVars,
    tracerVars,
    interleavedVars,
    limiterVars>>

\* the variables that are not about interleavedVars
outsideInterleaved == <<agentsVars, registryVars, workerVars, breakerVars, retryVars,
    tracerVars,
    managerVars,
    limiterVars>>

\* the variables that are not about limiterVars
outsideLimiter == <<agentsVars, registryVars, workerVars, breakerVars, retryVars,
    tracerVars,
    managerVars,
    interleavedVars>>

\* the history of the planning calls and of the runs
historyVars == <<last_response, prior_results, reports, runs, earlier_report>>

---------------------------------------------------------------------------
(* Bounds of the model. *)

\* largest max_iterations a ReactAgent is constructed with
MaxIterations == 3

\* longest plan given to _execute_plan in SpecExec
MaxPlanLen == 3

\* largest max_replans a run is constructed with in Spec
MaxReplans == 2

\* most calls of run() on one agent in Spec
MaxRuns == 2

---------------------------------------------------------------------------
(* Python values: an int, a str (its characters) or None. *)

IntVal(n) == [kind |-> "int", int |-> n, str |-> <<>>]

StrVal(s) == [kind |-> "str", int |-> 0, str |-> s]

NoneVal == [kind |-> "none", int |-> 0, str |-> <<>>]

EmptyMap == [k \in {} |-> NoneVal]

\* d[key] = value of a Python dict
Put(d, key, value) ==
    [k \in DOMAIN d \cup {key} |-> IF k = key THEN value ELSE d[k]]

Digits == <<"0", "1", "2", "3", "4", "5", "6", "7", "8", "9">>

\* str(n) for n >= 0, as the f-string of line 277 formats step_num
RECURSIVE StrOfInt(_)
StrOfInt(n) ==
    IF n < 10 THEN <<Digits[n + 1]>>
    ELSE StrOfInt(n \div 10) \o <<Digits[(n % 10) + 1]>>

\* f"step{step.step_num}"
StepKey(step_num) == <<"s", "t", "e", "p">> \o StrOfInt(step_num)

\* str.startswith
StartsWith(s, prefix) ==
    Len(s) >= Len(prefix) /\ SubSeq(s, 1, Len(prefix)) = prefix

\* value[1:]
DropFirst(s) == SubSeq(s, 2, Len(s))

---------------------------------------------------------------------------
(* PlanStep and ExecutionResult.  A parsed plan carries whatever JSON the  *)
(* planner wrote: tool_input is a dict or not, dependencies a list or not. *)
(* description and duration_ms take no part in the control flow and are    *)
(* left out.                                                               *)

Dict(items) == [kind |-> "dict", items |-> items]

NotADict == [kind |-> "list", items |-> EmptyMap]

List(elems) == [kind |-> "list", elems |-> elems]

NotAList == [kind |-> "int", elems |-> <<>>]

PlanStep(step_num, tool, tool_input, dependencies) ==
    [step_num |-> step_num, tool |-> tool, tool_input |-> tool_input,
     dependencies |-> dependencies]

ExecutionResult(step, success, output, error) ==
    [step |-> step, success |-> success, output |-> output, error |-> error]

---------------------------------------------------------------------------
(* The tools the agent is constructed with.  add and multiply take two     *)
(* numbers, lookup always fails with "not found", format_report is the     *)
(* tool of lines 440-447, which formats whatever it is given; each is      *)
(* deterministic and raises on arguments it cannot use.                    *)

tools == {"add", "multiply", "lookup", "format_report"}

\* str(value), as the f-string of line 443 formats it
TextOf(value) ==
    CASE value.kind = "str" -> value.str
      [] value.kind = "int" -> StrOfInt(value.int)
      [] OTHER -> <<"None">>

Returned(output) == [raised |-> FALSE, output |-> output, message |-> <<>>]

\* message: the text of the exception, str(e)
Raised(message) == [raised |-> TRUE, output |-> NoneVal, message |-> message]

\* self.tools[name](**args)
ToolCall(name, args) ==
    CASE name = "add" ->
            IF DOMAIN args # {"a", "b"} THEN Raised(<<"unexpected arguments">>)
            ELSE IF args["a"].kind = "int" /\ args["b"].kind = "int"
                 THEN Returned(IntVal(args["a"].int + args["b"].int))
                 ELSE Raised(<<"unsupported operand">>)
      [] name = "multiply" ->
            IF DOMAIN args # {"x", "y"} THEN Raised(<<"unexpected arguments">>)
            ELSE IF args["x"].kind = "int" /\ args["y"].kind = "int"
                 THEN Returned(IntVal(args["x"].int * args["y"].int))
                 ELSE Raised(<<"unsupported operand">>)
      [] name = "lookup" -> Raised(<<"not found">>)
      [] name = "format_report" ->
            IF DOMAIN args # {"data"} THEN Raised(<<"unexpected arguments">>)
            ELSE Returned(StrVal(<<"R", "e", "p", "o", "r", "t", ":", "\n">>
                                 \o TextOf(args["data"])))
      [] OTHER -> Raised(<<"KeyError">>)

---------------------------------------------------------------------------
(* _resolve_references *)

\* faulty variant: a marker whose step is absent resolves to None
Resolve_AbsentAsNone(tool_input, ctx) ==
    [key \in DOMAIN tool_input |->
        LET value == tool_input[key] IN
        IF value.kind = "str" /\ StartsWith(value.str, <<"$", "s", "t", "e", "p">>)
        THEN LET step_key == DropFirst(value.str) IN
             IF step_key \in DOMAIN ctx THEN ctx[step_key] ELSE NoneVal
        ELSE value]

_resolve_references(tool_input, ctx) ==
    [key \in DOMAIN tool_input |->
        LET value == tool_input[key] IN
        IF value.kind = "str" /\ StartsWith(value.str, <<"$", "s", "t", "e", "p">>)
        THEN LET step_key == DropFirst(value.str) IN
             IF step_key \in DOMAIN ctx THEN ctx[step_key] ELSE value
        ELSE value]

---------------------------------------------------------------------------
(* _execute_plan: the helpers of its loop. *)

\* faulty variant: only a dependency that succeeded counts
DependenciesMet_Succeeded(step, res) ==
    \A k \in DOMAIN step.dependencies.elems :
        /\ step.dependencies.elems[k] \in DOMAIN res
        /\ res[step.dependencies.elems[k]].success

\* faulty variant: any() in place of all()
DependenciesMet_Any(step, res) ==
    \E i \in DOMAIN step.dependencies.elems :
        step.dependencies.elems[i] \in DOMAIN res

\* all(dep in results for dep in step.dependencies)
DependenciesMet(step, res) ==
    \A i \in DOMAIN step.dependencies.elems :
        step.dependencies.elems[i] \in DOMAIN res

\* faulty variant: the batch is taken without looking at the dependencies
ReadySteps_Unchecked(remaining, res) == remaining

\* ready_steps = [step for step in remaining_steps if all(...)]
ReadySteps(remaining, res) ==
    SelectSeq(remaining, LAMBDA step : DependenciesMet(step, res))

\* some step of remaining_steps has dependencies that cannot be iterated
DependenciesRaise(remaining) ==
    \E i \in DOMAIN remaining : remaining[i].dependencies.kind # "list"

\* list.remove(x): drops the first element equal to x
Remove(seq, x) ==
    LET first == CHOOSE i \in DOMAIN seq :
                     seq[i] = x /\ \A j \in 1..(i - 1) : seq[j] # x
    IN  SubSeq(seq, 1, first - 1) \o SubSeq(seq, first + 1, Len(seq))

\* faulty variant: an argument that is still a reference marker fails the step
InvokeResult_RejectsMarker(step, args) ==
    IF step.tool \notin tools
    THEN ExecutionResult(step, FALSE, NoneVal,
                         StrVal(<<"Tool '", step.tool, "' not found">>))
    ELSE IF \E key \in DOMAIN args :
               /\ args[key].kind = "str"
               /\ StartsWith(args[key].str, <<"$", "s", "t", "e", "p">>)
    THEN ExecutionResult(step, FALSE, NoneVal, StrVal(<<"unresolved reference">>))
    ELSE LET call == ToolCall(step.tool, args) IN
         IF call.raised
         THEN ExecutionResult(step, FALSE, NoneVal, StrVal(call.message))
         ELSE ExecutionResult(step, TRUE, call.output, NoneVal)

\* the try block of lines 263-290: the ExecutionResult of one step
InvokeResult(step, args) ==
    IF step.tool \notin tools
    THEN ExecutionResult(step, FALSE, NoneVal,
                         StrVal(<<"Tool '", step.tool, "' not found">>))
    ELSE LET call == ToolCall(step.tool, args) IN
         IF call.raised
         THEN ExecutionResult(step, FALSE, NoneVal, StrVal(call.message))
         ELSE ExecutionResult(step, TRUE, call.output, NoneVal)

\* faulty variant: the output is stored whether or not the step succeeded
StoreOutput_Always(ctx, result) ==
    Put(ctx, StepKey(result.step.step_num), result.output)

\* context[f"step{step.step_num}"] = output, on success only
StoreOutput(ctx, result) ==
    IF result.success
    THEN Put(ctx, StepKey(result.step.step_num), result.output)
    ELSE ctx

\* results[step.step_num] = result
RecordResult(res, result) == Put(res, result.step.step_num, result)

\* [results[i] for i in sorted(results.keys())]
RECURSIVE SortedResults(_, _)
SortedResults(res, keys) ==
    IF keys = {} THEN <<>>
    ELSE LET least == CHOOSE k \in keys : \A other \in keys : k <= other
         IN  <<res[least]>> \o SortedResults(res, keys \ {least})

Report(res) == SortedResults(res, DOMAIN res)

---------------------------------------------------------------------------
(* The plans of the model. *)

Chars_step1 == <<"$", "s", "t", "e", "p", "1">>

Chars_step2 == <<"$", "s", "t", "e", "p", "2">>

\* tool and tool_input of the steps numbered 1, 2 and 3
CallsOf(step_num) ==
    CASE step_num = 1 ->
            { [tool |-> "add",
               tool_input |-> Dict(("a" :> IntVal(2)) @@ ("b" :> IntVal(3)))],
              [tool |-> "lookup",
               tool_input |-> Dict("q" :> StrVal(<<"s", "t", "e", "p", "1">>))] }
      [] step_num = 2 ->
            { [tool |-> "multiply",
               tool_input |-> Dict(("x" :> StrVal(Chars_step1)) @@ ("y" :> IntVal(4)))],
              [tool |-> "format",
               tool_input |-> Dict("data" :> StrVal(<<"$", "s", "t", "e", "p">>))] }
      [] OTHER ->
            { [tool |-> "add",
               tool_input |-> Dict(("a" :> StrVal(Chars_step1))
                                   @@ ("b" :> StrVal(Chars_step2)))],
              [tool |-> "format_report",
               tool_input |-> Dict("data" :> StrVal(Chars_step1))] }

\* dependencies of the steps numbered 1, 2 and 3; no step is numbered 4
DependenciesOf(step_num) ==
    CASE step_num = 1 -> { <<>>, <<1>>, <<2>> }
      [] step_num = 2 -> { <<>>, <<1>>, <<4>> }
      [] OTHER -> { <<1, 2>>, <<2>> }

StepNums == {1, 2, 3}

StepPool ==
    UNION { { PlanStep(n, call.tool, call.tool_input, List(deps)) :
                call \in CallsOf(n), deps \in DependenciesOf(n) } :
            n \in StepNums }

RECURSIVE SeqsUpTo(_, _)
SeqsUpTo(S, n) ==
    IF n = 0 THEN { <<>> }
    ELSE LET shorter == SeqsUpTo(S, n - 1) IN
         shorter \cup { Append(q, x) : q \in shorter, x \in S }

\* the plans _execute_plan is called with in SpecExec
ExecPlans == SeqsUpTo(StepPool, MaxPlanLen)

---------------------------------------------------------------------------
(* _execute_plan, lines 223-299, one action for each stretch of the loop.  *)

\* no ReactAgent is running
ReactIdle ==
    /\ react_pc = "idle"
    /\ max_iterations = 0
    /\ iteration = 0
    /\ conversation_history = <<>>
    /\ react_result = [kind |-> "idle", value |-> ""]
    /\ llm_calls = 0
    /\ tool_calls = 0
    /\ prompts = <<>>
    /\ replies = <<>>
    /\ react_runs = 1
    /\ earlier_records = 0

\* no ToolRegistry has been built
RegistryIdle ==
    /\ registry_tools = <<>>
    /\ registry_outcome = [op |-> "none"]

\* no worker agent has been built
WorkerIdle ==
    /\ agent_name = "none"
    /\ message_history = <<>>
    /\ process_outcome = [kind |-> "none"]

\* last_failure_time: Optional[float] = None
NoFailure == -1

\* no CircuitBreaker has been built
BreakerIdle ==
    /\ failure_threshold = 0
    /\ recovery_timeout = 0
    /\ state = "none"
    /\ failure_count = 0
    /\ last_failure_time = NoFailure
    /\ success_count = 0
    /\ now = 0
    /\ breaker_calls = 0
    /\ func_calls = 0
    /\ call_outcome = [kind |-> "none"]

\* no wrapper of retry_with_backoff is being called
RetryIdle ==
    /\ func = "none"
    /\ max_retries = 0
    /\ initial_delay = 0
    /\ backoff_factor = 0
    /\ exceptions = {}
    /\ expression = ""
    /\ attempt = 0
    /\ delay = 0
    /\ invocations = <<>>
    /\ sleeps = <<>>
    /\ retry_outcome = [kind |-> "none"]

\* no ToolTracer has been built
TracerIdle ==
    /\ tracer_calls = <<>>
    /\ call_counter = 0
    /\ tracer_outcome = [kind |-> "none"]

\* no ManagerAgent is processing a message
ManagerIdle ==
    /\ manager_pc = "idle"
    /\ verbose = FALSE
    /\ plan_response = [kind |-> "none"]
    /\ delegation_plan = <<>>
    /\ plan_pos = 0
    /\ manager_results = <<>>
    /\ shared_context = <<>>
    /\ dispatched = <<>>
    /\ manager_outcome = [kind |-> "none"]

\* no two calls of run share a ReactAgent
InterleavedIdle ==
    /\ shared_history = <<>>
    /\ shared_iterations = 0
    /\ calls = <<>>

\* no ProductionAgent and no RateLimiter is in use
LimiterIdle ==
    /\ capacity = 0
    /\ tokens = 0
    /\ last_update = 0
    /\ limiter_now = 0
    /\ limiter_outcome = [op |-> "none"]
    /\ chat_calls = 0
    /\ llm_requests = 0
    /\ total_requests = 0
    /\ total_errors = 0
    /\ chat_outcome = [kind |-> "none"]

\* the tracer, the manager and the limiter are not in use
LastIdle == TracerIdle /\ ManagerIdle /\ InterleavedIdle /\ LimiterIdle

\* everything beside tracerVars is not in use
BesideTracer ==
    RegistryIdle /\ WorkerIdle /\ BreakerIdle /\ RetryIdle
    /\ ManagerIdle
    /\ InterleavedIdle
    /\ LimiterIdle

\* everything beside managerVars is not in use
BesideManager ==
    RegistryIdle /\ WorkerIdle /\ BreakerIdle /\ RetryIdle
    /\ TracerIdle
    /\ InterleavedIdle
    /\ LimiterIdle

\* everything beside interleavedVars is not in use
BesideInterleaved ==
    RegistryIdle /\ WorkerIdle /\ BreakerIdle /\ RetryIdle
    /\ TracerIdle
    /\ ManagerIdle
    /\ LimiterIdle

\* everything beside limiterVars is not in use
BesideLimiter ==
    RegistryIdle /\ WorkerIdle /\ BreakerIdle /\ RetryIdle
    /\ TracerIdle
    /\ ManagerIdle
    /\ InterleavedIdle

\* the components beside the two agents are not in use
LaterIdle ==
    RegistryIdle /\ WorkerIdle /\ BreakerIdle /\ RetryIdle /\ LastIdle

\* no planning call has been made yet
NoResponse == [raises |-> FALSE, has_array |-> FALSE, json_ok |-> FALSE,
               steps |-> <<>>, none |-> TRUE]

\* lines 230-234: results = {}, context = {}, remaining_steps = plan.copy()
EnterExecutePlan(p) ==
    /\ plan' = p
    /\ results' = EmptyMap
    /\ context' = EmptyMap
    /\ remaining_steps' = p
    /\ ready_steps' = <<>>
    /\ batch_pos' = 0
    /\ resolved_input' = EmptyMap
    /\ executed' = <<>>

\* faulty variant: no break when the batch is empty
ExecWhile_NoBreak ==
    /\ pc = "exec_while"
    /\ IF remaining_steps = <<>>
       THEN /\ pc' = "exec_return"
            /\ UNCHANGED <<ready_steps, batch_pos, outcome>>
       ELSE IF DependenciesRaise(remaining_steps)
       THEN /\ pc' = "done"
            /\ outcome' = "exception"
            /\ UNCHANGED <<ready_steps, batch_pos>>
       ELSE /\ ready_steps' = ReadySteps(remaining_steps, results)
            /\ batch_pos' = 1
            /\ pc' = IF ready_steps' = <<>> THEN "exec_while" ELSE "exec_resolve"
            /\ UNCHANGED outcome
    /\ UNCHANGED <<max_replans, replans_used, execution_results, plan, results,
                   context, remaining_steps, resolved_input, executed,
                   planner_calls, failed_attempts>>
    /\ UNCHANGED historyVars
    /\ UNCHANGED outsideRun

\* lines 236-247: the loop test, the ready batch, the break when it is empty
ExecWhile ==
    /\ pc = "exec_while"
    /\ IF remaining_steps = <<>>
       THEN /\ pc' = "exec_return"
            /\ UNCHANGED <<ready_steps, batch_pos, outcome>>
       ELSE IF DependenciesRaise(remaining_steps)
       THEN /\ pc' = "done"
            /\ outcome' = "exception"
            /\ UNCHANGED <<ready_steps, batch_pos>>
       ELSE /\ ready_steps' = ReadySteps(remaining_steps, results)
            /\ batch_pos' = 1
            /\ pc' = IF ready_steps' = <<>> THEN "exec_return" ELSE "exec_resolve"
            /\ UNCHANGED outcome
    /\ UNCHANGED <<max_replans, replans_used, execution_results, plan, results,
                   context, remaining_steps, resolved_input, executed,
                   planner_calls, failed_attempts>>
    /\ UNCHANGED historyVars
    /\ UNCHANGED outsideRun

\* faulty variant: the resolved values are written into the step's tool_input,
\* the step being the one object the plan and the working lists hold
ExecResolve_InPlace ==
    /\ pc = "exec_resolve"
    /\ LET step == ready_steps[batch_pos] IN
       IF step.tool_input.kind # "dict"
       THEN /\ pc' = "done"
            /\ outcome' = "exception"
            /\ UNCHANGED <<resolved_input, plan, remaining_steps, ready_steps>>
       ELSE LET resolved == _resolve_references(step.tool_input.items, context)
                written == [step EXCEPT !.tool_input = Dict(resolved)]
                Rewritten(seq) ==
                    [i \in DOMAIN seq |-> IF seq[i] = step THEN written ELSE seq[i]]
            IN  /\ resolved_input' = resolved
                /\ plan' = Rewritten(plan)
                /\ remaining_steps' = Rewritten(remaining_steps)
                /\ ready_steps' = Rewritten(ready_steps)
                /\ pc' = "exec_invoke"
                /\ UNCHANGED outcome
    /\ UNCHANGED <<max_replans, replans_used, execution_results, results,
                   context, batch_pos, executed, planner_calls, failed_attempts>>
    /\ UNCHANGED historyVars
    /\ UNCHANGED outsideRun

\* lines 250-260: the next step of the batch, its input resolved
ExecResolve ==
    /\ pc = "exec_resolve"
    /\ LET step == ready_steps[batch_pos] IN
       IF step.tool_input.kind # "dict"
       THEN /\ pc' = "done"
            /\ outcome' = "exception"
            /\ UNCHANGED resolved_input
       ELSE /\ resolved_input' = _resolve_references(step.tool_input.items, context)
            /\ pc' = "exec_invoke"
            /\ UNCHANGED outcome
    /\ UNCHANGED <<max_replans, replans_used, execution_results, plan, results,
                   context, remaining_steps, ready_steps, batch_pos, executed,
                   planner_calls, failed_attempts>>
    /\ UNCHANGED historyVars
    /\ UNCHANGED outsideRun

\* faulty variant: a failed step ends the execution of the plan
ExecInvoke_AbortOnFailure ==
    /\ pc = "exec_invoke"
    /\ LET step == ready_steps[batch_pos]
           result == InvokeResult(step, resolved_input)
       IN  /\ context' = StoreOutput(context, result)
           /\ results' = RecordResult(results, result)
           /\ remaining_steps' = Remove(remaining_steps, step)
           /\ executed' = Append(executed, [step |-> step, input |-> resolved_input,
                                            result |-> result])
           /\ pc' = IF ~result.success THEN "exec_return"
                    ELSE IF batch_pos < Len(ready_steps) THEN "exec_resolve"
                    ELSE "exec_while"
    /\ batch_pos' = batch_pos + 1
    /\ UNCHANGED <<max_replans, replans_used, execution_results, outcome, plan,
                   ready_steps, resolved_input, planner_calls, failed_attempts>>
    /\ UNCHANGED historyVars
    /\ UNCHANGED outsideRun

\* lines 262-296: the tool is invoked and the result recorded
ExecInvoke ==
    /\ pc = "exec_invoke"
    /\ LET step == ready_steps[batch_pos]
           result == InvokeResult(step, resolved_input)
       IN  /\ context' = StoreOutput(context, result)
           /\ results' = RecordResult(results, result)
           /\ remaining_steps' = Remove(remaining_steps, step)
           /\ executed' = Append(executed, [step |-> step, input |-> resolved_input,
                                            result |-> result])
    /\ batch_pos' = batch_pos + 1
    /\ pc' = IF batch_pos < Len(ready_steps) THEN "exec_resolve" ELSE "exec_while"
    /\ UNCHANGED <<max_replans, replans_used, execution_results, outcome, plan,
                   ready_steps, resolved_input, planner_calls, failed_attempts>>
    /\ UNCHANGED historyVars
    /\ UNCHANGED outsideRun

\* faulty variant: the report is appended to the previous results
ExecReturn_Accumulates ==
    /\ pc = "exec_return"
    /\ execution_results' = execution_results \o Report(results)
    /\ pc' = "run_check"
    /\ UNCHANGED <<max_replans, replans_used, outcome, plan, results, context,
                   remaining_steps, ready_steps, batch_pos, resolved_input,
                   executed, planner_calls, failed_attempts>>
    /\ reports' = Append(reports, Report(results))
    /\ UNCHANGED <<last_response, prior_results, runs, earlier_report>>
    /\ UNCHANGED outsideRun

\* line 299, and line 95 where run receives the report
ExecReturn ==
    /\ pc = "exec_return"
    /\ execution_results' = Report(results)
    /\ pc' = "run_check"
    /\ UNCHANGED <<max_replans, replans_used, outcome, plan, results, context,
                   remaining_steps, ready_steps, batch_pos, resolved_input,
                   executed, planner_calls, failed_attempts>>
    /\ reports' = Append(reports, Report(results))
    /\ UNCHANGED <<last_response, prior_results, runs, earlier_report>>
    /\ UNCHANGED outsideRun

InitExec ==
    /\ pc = "exec_while"
    /\ max_replans = 0
    /\ replans_used = 0
    /\ execution_results = <<>>
    /\ outcome = "running"
    /\ plan \in ExecPlans
    /\ results = EmptyMap
    /\ context = EmptyMap
    /\ remaining_steps = plan
    /\ ready_steps = <<>>
    /\ batch_pos = 0
    /\ resolved_input = EmptyMap
    /\ executed = <<>>
    /\ planner_calls = 0
    /\ failed_attempts = 0
    /\ last_response = NoResponse
    /\ prior_results = <<>>
    /\ reports = <<>>
    /\ runs = 1
    /\ earlier_report = <<>>
    /\ frames = <<>>
    /\ ReactIdle
    /\ LaterIdle

NextExec == ExecWhile \/ ExecResolve \/ ExecInvoke \/ ExecReturn

SpecExec == InitExec /\ [][NextExec]_vars

SpecExecFair == SpecExec /\ WF_vars(NextExec)

---------------------------------------------------------------------------
(* _execute_plan as a function of the plan: the loop of lines 236-296      *)
(* folded over the batches, with the helpers the actions use.              *)

ExecState(res, ctx, remaining) ==
    [results |-> res, context |-> ctx, remaining_steps |-> remaining]

\* the body of the for loop, lines 250-296, for one step
ExecuteStep(st, step) ==
    LET result == InvokeResult(
            step, _resolve_references(step.tool_input.items, st.context))
    IN  ExecState(RecordResult(st.results, result),
                  StoreOutput(st.context, result),
                  Remove(st.remaining_steps, step))

\* for step in ready_steps
RECURSIVE ExecuteBatch(_, _)
ExecuteBatch(st, ready) ==
    IF ready = <<>> THEN st
    ELSE ExecuteBatch(ExecuteStep(st, Head(ready)), Tail(ready))

\* while remaining_steps
RECURSIVE ExecuteLoop(_)
ExecuteLoop(st) ==
    IF st.remaining_steps = <<>> THEN st
    ELSE LET ready == ReadySteps(st.remaining_steps, st.results) IN
         IF ready = <<>> THEN st
         ELSE ExecuteLoop(ExecuteBatch(st, ready))

\* the report _execute_plan returns and the context it ends with
_execute_plan(p) ==
    LET st == ExecuteLoop(ExecState(EmptyMap, EmptyMap, p))
    IN  [report |-> Report(st.results), context |-> st.context]

\* the actions and the function compute the same execution
ActionsAgreeWithFunction ==
    pc = "run_check" =>
        _execute_plan(plan) = [report |-> execution_results, context |-> context]

---------------------------------------------------------------------------
(* _create_plan, lines 179-221.  A response of the reasoning client is the *)
(* call raising, or a text: with or without a JSON array in it (line 189), *)
(* which json.loads accepts or not (line 191), and whose elements hold the *)
(* fields of a step or lack a required one (lines 195-201).                *)

Response(raises, has_array, json_ok, steps) ==
    [raises |-> raises, has_array |-> has_array, json_ok |-> json_ok,
     steps |-> steps]

StepData(complete, step) == [complete |-> complete, step |-> step]

PlanResponse(p) ==
    Response(FALSE, TRUE, TRUE, [i \in DOMAIN p |-> StepData(TRUE, p[i])])

\* faulty variant: the steps before the first one lacking a field are kept
_create_plan_KeepsParsedSteps(response) ==
    IF ~response.has_array THEN <<>>
    ELSE IF ~response.json_ok THEN <<>>
    ELSE LET complete == { i \in DOMAIN response.steps :
                             \A j \in 1..i : response.steps[j].complete }
         IN  [i \in complete |-> response.steps[i].step]

\* the plan parsed from a response: [] when the text has no array, when
\* json.loads raises or when a step lacks a field (the except of line 218)
_create_plan(response) ==
    IF ~response.has_array THEN <<>>
    ELSE IF ~response.json_ok THEN <<>>
    ELSE IF \E i \in DOMAIN response.steps : ~response.steps[i].complete THEN <<>>
    ELSE [i \in DOMAIN response.steps |-> response.steps[i].step]

Add23 == Dict(("a" :> IntVal(2)) @@ ("b" :> IntVal(3)))

\* step 1 add(a=2, b=3), step 2 multiply(x=$step1, y=4) after step 1
ScenarioPlan ==
    << PlanStep(1, "add", Add23, List(<<>>)),
       PlanStep(2, "multiply",
                Dict(("x" :> StrVal(Chars_step1)) @@ ("y" :> IntVal(4))),
                List(<<1>>)) >>

\* one step calling lookup, which always fails
FailingPlan ==
    << PlanStep(1, "lookup", Dict("q" :> StrVal(<<"p", "a", "r", "i", "s">>)),
                List(<<>>)) >>

\* a good step and a step naming a tool that is not registered
UnknownToolPlan ==
    << PlanStep(1, "add", Add23, List(<<>>)),
       PlanStep(2, "format", Dict("data" :> StrVal(Chars_step1)), List(<<1>>)) >>

\* step 1 depends on 2, step 2 depends on 1
CyclePlan ==
    << PlanStep(1, "add", Add23, List(<<2>>)),
       PlanStep(2, "lookup", Dict("q" :> StrVal(Chars_step1)), List(<<1>>)) >>

\* a good step and a step depending on a step id the plan does not have
MissingDependencyPlan ==
    << PlanStep(1, "add", Add23, List(<<>>)),
       PlanStep(2, "lookup", Dict("q" :> StrVal(Chars_step1)), List(<<4>>)) >>

\* two steps numbered 1
DuplicateIdPlan ==
    << PlanStep(1, "add", Add23, List(<<>>)),
       PlanStep(1, "lookup", Dict("q" :> StrVal(Chars_step1)), List(<<>>)) >>

\* "tool_input": [2, 3]
NotADictPlan == << PlanStep(1, "add", NotADict, List(<<>>)) >>

\* "dependencies": 1
NotAListPlan ==
    << PlanStep(1, "add", Add23, List(<<>>)),
       PlanStep(2, "add", Add23, NotAList) >>

\* what the reasoning client answers to a planning prompt
PlannerResponses ==
    { PlanResponse(p) :
        p \in { ScenarioPlan, FailingPlan, UnknownToolPlan, CyclePlan,
                MissingDependencyPlan, DuplicateIdPlan, NotADictPlan,
                NotAListPlan, <<>> } }
    \cup { Response(TRUE, FALSE, FALSE, <<>>),
           Response(FALSE, FALSE, FALSE, <<>>),
           Response(FALSE, TRUE, FALSE, <<>>),
           Response(FALSE, TRUE, TRUE,
                    << StepData(TRUE, ScenarioPlan[1]),
                       StepData(FALSE, ScenarioPlan[2]) >>) }

---------------------------------------------------------------------------
(* run, lines 54-123. *)

RunEnds(result) == pc' = "done" /\ outcome' = result

\* lines 133-143: the previous results as the planning prompt lists them,
\* for each its status, its step number and its output or its error
PreviousContext(previous_results) ==
    [i \in DOMAIN previous_results |->
        LET result == previous_results[i] IN
        [success |-> result.success,
         step_num |-> result.step.step_num,
         text |-> IF result.success THEN TextOf(result.output)
                  ELSE TextOf(result.error)]]

\* lines 73-95: the loop test, _create_plan, the call of _execute_plan
RunPlan ==
    /\ pc = "run_while"
    /\ replans_used <= max_replans
    /\ planner_calls' = planner_calls + 1
    /\ prior_results' = PreviousContext(execution_results)
    /\ \E response \in PlannerResponses :
          /\ last_response' = response
          /\ IF response.raises
             THEN /\ RunEnds("exception")
                  /\ UNCHANGED <<plan, results, context, remaining_steps,
                                 ready_steps, batch_pos, resolved_input, executed>>
             ELSE IF _create_plan(response) = <<>>
             THEN /\ RunEnds("plan_failed")
                  /\ UNCHANGED <<plan, results, context, remaining_steps,
                                 ready_steps, batch_pos, resolved_input, executed>>
             ELSE /\ EnterExecutePlan(_create_plan(response))
                  /\ pc' = "exec_while"
                  /\ UNCHANGED outcome
    /\ UNCHANGED <<max_replans, replans_used, execution_results, failed_attempts,
                   reports, runs, earlier_report>>
    /\ UNCHANGED outsideRun

\* line 123: the loop test fails
RunUnable ==
    /\ pc = "run_while"
    /\ replans_used > max_replans
    /\ RunEnds("unable")
    /\ UNCHANGED <<max_replans, replans_used, execution_results, plan, results,
                   context, remaining_steps, ready_steps, batch_pos,
                   resolved_input, executed, planner_calls, failed_attempts>>
    /\ UNCHANGED historyVars
    /\ UNCHANGED outsideRun

\* failures = [r for r in execution_results if not r.success]
Failures(report) == SelectSeq(report, LAMBDA r : ~r.success)

\* faulty variant: the budget counts attempts, not replans (< in place of <=)
RunCheck_CountsAttempts ==
    /\ pc = "run_check"
    /\ IF Failures(execution_results) = <<>>
       THEN /\ pc' = "run_synthesize"
            /\ UNCHANGED <<replans_used, failed_attempts, outcome>>
       ELSE /\ replans_used' = replans_used + 1
            /\ failed_attempts' = failed_attempts + 1
            /\ IF replans_used' < max_replans
               THEN pc' = "run_while" /\ UNCHANGED outcome
               ELSE RunEnds("partial")
    /\ UNCHANGED <<max_replans, execution_results, plan, results, context,
                   remaining_steps, ready_steps, batch_pos, resolved_input,
                   executed, planner_calls>>
    /\ UNCHANGED historyVars
    /\ UNCHANGED outsideRun

\* faulty variant: after the last replan the loop test is reached again
RunCheck_BackToLoop ==
    /\ pc = "run_check"
    /\ IF Failures(execution_results) = <<>>
       THEN /\ pc' = "run_synthesize"
            /\ UNCHANGED <<replans_used, failed_attempts, outcome>>
       ELSE /\ replans_used' = replans_used + 1
            /\ failed_attempts' = failed_attempts + 1
            /\ pc' = "run_while"
            /\ UNCHANGED outcome
    /\ UNCHANGED <<max_replans, execution_results, plan, results, context,
                   remaining_steps, ready_steps, batch_pos, resolved_input,
                   executed, planner_calls>>
    /\ UNCHANGED historyVars
    /\ UNCHANGED outsideRun

\* lines 98-121: success, another attempt, or the partial answer
RunCheck ==
    /\ pc = "run_check"
    /\ IF Failures(execution_results) = <<>>
       THEN /\ pc' = "run_synthesize"
            /\ UNCHANGED <<replans_used, failed_attempts, outcome>>
       ELSE /\ replans_used' = replans_used + 1
            /\ failed_attempts' = failed_attempts + 1
            /\ IF replans_used' <= max_replans
               THEN pc' = "run_while" /\ UNCHANGED outcome
               ELSE RunEnds("partial")
    /\ UNCHANGED <<max_replans, execution_results, plan, results, context,
                   remaining_steps, ready_steps, batch_pos, resolved_input,
                   executed, planner_calls>>
    /\ UNCHANGED historyVars
    /\ UNCHANGED outsideRun

\* line 107, _synthesize_answer: the reasoning client answers or raises
RunSynthesize ==
    /\ pc = "run_synthesize"
    /\ \E raises \in BOOLEAN :
          RunEnds(IF raises THEN "exception" ELSE "answer")
    /\ UNCHANGED <<max_replans, replans_used, execution_results, plan, results,
                   context, remaining_steps, ready_steps, batch_pos,
                   resolved_input, executed, planner_calls, failed_attempts>>
    /\ UNCHANGED historyVars
    /\ UNCHANGED outsideRun

\* run() is called again on the same agent: lines 70-71 start it afresh,
\* the locals of the call that ended are gone
RunAgain ==
    /\ pc = "done"
    /\ runs < MaxRuns
    /\ runs' = runs + 1
    /\ earlier_report' = IF reports = <<>> THEN earlier_report
                         ELSE reports[Len(reports)]
    /\ pc' = "run_while"
    /\ replans_used' = 0
    /\ execution_results' = <<>>
    /\ outcome' = "running"
    /\ EnterExecutePlan(<<>>)
    /\ planner_calls' = 0
    /\ failed_attempts' = 0
    /\ last_response' = NoResponse
    /\ prior_results' = <<>>
    /\ reports' = <<>>
    /\ UNCHANGED max_replans
    /\ UNCHANGED outsideRun

Init ==
    /\ pc = "run_while"
    /\ max_replans \in -1..MaxReplans
    /\ replans_used = 0
    /\ execution_results = <<>>
    /\ outcome = "running"
    /\ plan = <<>>
    /\ results = EmptyMap
    /\ context = EmptyMap
    /\ remaining_steps = <<>>
    /\ ready_steps = <<>>
    /\ batch_pos = 0
    /\ resolved_input = EmptyMap
    /\ executed = <<>>
    /\ planner_calls = 0
    /\ failed_attempts = 0
    /\ last_response = NoResponse
    /\ prior_results = <<>>
    /\ reports = <<>>
    /\ runs = 1
    /\ earlier_report = <<>>
    /\ frames = <<>>
    /\ ReactIdle
    /\ LaterIdle

Next ==
    \/ RunPlan
    \/ RunUnable
    \/ ExecWhile
    \/ ExecResolve
    \/ ExecInvoke
    \/ ExecReturn
    \/ RunCheck
    \/ RunSynthesize
    \/ RunAgain

Spec == Init /\ [][Next]_vars

\* the steps of one call of run
RunStep ==
    \/ RunPlan
    \/ RunUnable
    \/ ExecWhile
    \/ ExecResolve
    \/ ExecInvoke
    \/ ExecReturn
    \/ RunCheck
    \/ RunSynthesize

\* a call of run goes on to its end: every call it makes returns or raises
SpecFair == Spec /\ WF_vars(RunStep)

---------------------------------------------------------------------------
(* Two calls of _execute_plan in progress on one agent, as when run() is   *)
(* called from two threads.  A call's results, context, remaining_steps    *)
(* and ready_steps are locals of its frame (lines 230-234, 238); the agent *)
(* holds tools, max_replans and the client only (lines 50-52).  A call is  *)
(* interleaved with the other around its tool calls: its input is resolved *)
(* before the tool runs, its result recorded after.                        *)

\* a step using $step1 without declaring the dependency
ReferencePlan ==
    << PlanStep(2, "multiply",
                Dict(("x" :> StrVal(Chars_step1)) @@ ("y" :> IntVal(4))),
                List(<<>>)) >>

\* the plans of the two calls
FramePlans ==
    { ScenarioPlan, FailingPlan, UnknownToolPlan, CyclePlan, ReferencePlan }

\* the frame of a call of _execute_plan(p), at line 236
Frame(p) ==
    [plan |-> p, results |-> EmptyMap, context |-> EmptyMap,
     remaining_steps |-> p, ready_steps |-> <<>>, batch_pos |-> 0,
     resolved_input |-> EmptyMap, execution_results |-> <<>>,
     pc |-> "exec_while"]

\* lines 236-247 in frame f
FrameWhile(f) ==
    /\ frames[f].pc = "exec_while"
    /\ LET fr == frames[f]
           ready == ReadySteps(fr.remaining_steps, fr.results)
       IN  frames' = [frames EXCEPT ![f] =
              IF fr.remaining_steps = <<>> THEN [fr EXCEPT !.pc = "exec_return"]
              ELSE [fr EXCEPT !.ready_steps = ready,
                              !.batch_pos = 1,
                              !.pc = IF ready = <<>> THEN "exec_return"
                                     ELSE "exec_resolve"]]
    /\ UNCHANGED outsideFrames

\* lines 250-260 in frame f
FrameResolve(f) ==
    /\ frames[f].pc = "exec_resolve"
    /\ LET fr == frames[f]
           step == fr.ready_steps[fr.batch_pos]
       IN  frames' = [frames EXCEPT ![f] =
              [fr EXCEPT !.resolved_input =
                            _resolve_references(step.tool_input.items, fr.context),
                         !.pc = "exec_invoke"]]
    /\ UNCHANGED outsideFrames

\* faulty variant: the context is a field of the agent, one for all calls
FrameInvoke_SharedContext(f) ==
    /\ frames[f].pc = "exec_invoke"
    /\ LET fr == frames[f]
           step == fr.ready_steps[fr.batch_pos]
           result == InvokeResult(step, fr.resolved_input)
       IN  frames' = [g \in DOMAIN frames |->
              IF g = f
              THEN [fr EXCEPT !.context = StoreOutput(fr.context, result),
                              !.results = RecordResult(fr.results, result),
                              !.remaining_steps = Remove(fr.remaining_steps, step),
                              !.batch_pos = fr.batch_pos + 1,
                              !.pc = IF fr.batch_pos < Len(fr.ready_steps)
                                     THEN "exec_resolve" ELSE "exec_while"]
              ELSE [frames[g] EXCEPT
                       !.context = StoreOutput(frames[g].context, result)]]
    /\ UNCHANGED outsideFrames

\* lines 262-296 in frame f
FrameInvoke(f) ==
    /\ frames[f].pc = "exec_invoke"
    /\ LET fr == frames[f]
           step == fr.ready_steps[fr.batch_pos]
           result == InvokeResult(step, fr.resolved_input)
       IN  frames' = [frames EXCEPT ![f] =
              [fr EXCEPT !.context = StoreOutput(fr.context, result),
                         !.results = RecordResult(fr.results, result),
                         !.remaining_steps = Remove(fr.remaining_steps, step),
                         !.batch_pos = fr.batch_pos + 1,
                         !.pc = IF fr.batch_pos < Len(fr.ready_steps)
                                THEN "exec_resolve" ELSE "exec_while"]]
    /\ UNCHANGED outsideFrames

\* line 299 in frame f, and line 95 where its run receives the report
FrameReturn(f) ==
    /\ frames[f].pc = "exec_return"
    /\ frames' = [frames EXCEPT ![f] =
          [frames[f] EXCEPT !.execution_results = Report(frames[f].results),
                            !.pc = "run_check"]]
    /\ UNCHANGED outsideFrames

InitFrames ==
    /\ pc = "frames"
    /\ max_replans = 0
    /\ replans_used = 0
    /\ execution_results = <<>>
    /\ outcome = "running"
    /\ plan = <<>>
    /\ results = EmptyMap
    /\ context = EmptyMap
    /\ remaining_steps = <<>>
    /\ ready_steps = <<>>
    /\ batch_pos = 0
    /\ resolved_input = EmptyMap
    /\ executed = <<>>
    /\ planner_calls = 0
    /\ failed_attempts = 0
    /\ last_response = NoResponse
    /\ prior_results = <<>>
    /\ reports = <<>>
    /\ runs = 1
    /\ earlier_report = <<>>
    /\ \E p, q \in FramePlans : frames = << Frame(p), Frame(q) >>
    /\ ReactIdle
    /\ LaterIdle

NextFrames ==
    \/ \E f \in DOMAIN frames : FrameWhile(f)
    \/ \E f \in DOMAIN frames : FrameResolve(f)
    \/ \E f \in DOMAIN frames : FrameInvoke(f)
    \/ \E f \in DOMAIN frames : FrameReturn(f)

SpecFrames == InitFrames /\ [][NextFrames]_vars

---------------------------------------------------------------------------
(* ReactAgent of examples/python-react-pattern/main.py: run, lines 54-100, *)
(* with _parse_response and _execute_action.  The name of an action is a   *)
(* sequence of characters, so that lower() and `in` are computed; the      *)
(* other texts are strings.  An action that is None or "" is <<>>: the     *)
(* code only tests its truth.                                              *)

UpperCase ==
    <<"A", "B", "C", "D", "E", "F", "G", "H", "I", "J", "K", "L", "M",
      "N", "O", "P", "Q", "R", "S", "T", "U", "V", "W", "X", "Y", "Z">>

LowerCase ==
    <<"a", "b", "c", "d", "e", "f", "g", "h", "i", "j", "k", "l", "m",
      "n", "o", "p", "q", "r", "s", "t", "u", "v", "w", "x", "y", "z">>

\* str.lower()
Lower(s) ==
    [i \in DOMAIN s |->
        IF \E k \in DOMAIN UpperCase : UpperCase[k] = s[i]
        THEN LowerCase[CHOOSE k \in DOMAIN UpperCase : UpperCase[k] = s[i]]
        ELSE s[i]]

\* sub in s
Contains(s, sub) ==
    \E i \in 1..(Len(s) - Len(sub) + 1) : SubSeq(s, i, i + Len(sub) - 1) = sub

\* "final answer", line 184
Chars_final_answer == <<"f", "i", "n", "a", "l", " ", "a", "n", "s", "w", "e", "r">>

\* the action the prompt asks for, line 121
FinalAnswer == <<"F", "i", "n", "a", "l", " ", "A", "n", "s", "w", "e", "r">>

Chars_get_weather == <<"g", "e", "t", "_", "w", "e", "a", "t", "h", "e", "r">>

Chars_calculator == <<"c", "a", "l", "c", "u", "l", "a", "t", "o", "r">>

Chars_search == <<"s", "e", "a", "r", "c", "h">>

\* a tool that returns the empty string
Chars_save_note == <<"s", "a", "v", "e", "_", "n", "o", "t", "e">>

\* an action that names the final answer without being Final Answer
Chars_verify_final_answer == <<"V", "e", "r", "i", "f", "y", " ", "F", "i", "n", "a", "l", " ", "A", "n", "s", "w", "e", "r">>

\* the keys of self.tools
react_tools == { Chars_get_weather, Chars_calculator, Chars_save_note }

EmptyInput == [name \in {} |-> ""]

Observation(kind, action, text) == [kind |-> kind, action |-> action, text |-> text]

\* observation: Optional[str] = None
NoObservation == Observation("none", <<>>, "")

AgentStep(thought, action, action_input, observation, is_final) ==
    [thought |-> thought, action |-> action, action_input |-> action_input,
     observation |-> observation, is_final |-> is_final]

\* a response of the client: the call raising, or a text with or without
\* its Thought:, Action: and Action Input: parts; the Action Input is none,
\* or an object json.loads accepts, or one it does not
LLMResponse(raises, raw, thought, action, input) ==
    [raises |-> raises, raw |-> raw, thought |-> thought, action |-> action,
     input |-> input]

NoInput == [kind |-> "none", dict |-> EmptyInput, text |-> ""]

JsonInput(dict) == [kind |-> "json", dict |-> dict, text |-> ""]

TextInput(text) == [kind |-> "text", dict |-> EmptyInput, text |-> text]

\* faulty variant: the test of line 184 without lower()
IsFinal_CaseSensitive(action) ==
    action # <<>> /\ Contains(action, Chars_final_answer)

\* lines 183-185: action and "final answer" in action.lower()
IsFinal(action) ==
    action # <<>> /\ Contains(Lower(action), Chars_final_answer)

\* faulty variant: a response without Thought: leaves the thought empty
_parse_response_NoFallback(response) ==
    LET action == response.action
        action_input ==
            IF action = <<>> THEN EmptyInput
            ELSE IF response.input.kind = "json" THEN response.input.dict
            ELSE IF response.input.kind = "text"
                 THEN ("input" :> response.input.text)
            ELSE EmptyInput
    IN  AgentStep(response.thought, action, action_input, NoObservation,
                  IsFinal(action))

\* lines 160-192
_parse_response(response) ==
    LET thought == IF response.thought # "" THEN response.thought
                   ELSE response.raw
        action == response.action
        action_input ==
            IF action = <<>> THEN EmptyInput
            ELSE IF response.input.kind = "json" THEN response.input.dict
            ELSE IF response.input.kind = "text"
                 THEN ("input" :> response.input.text)
            ELSE EmptyInput
    IN  AgentStep(thought, action, action_input, NoObservation, IsFinal(action))

ToolReturned(text) == [raised |-> FALSE, text |-> text, message |-> ""]

ToolRaised(message) == [raised |-> TRUE, text |-> "", message |-> message]

\* str(self.tools[action](**action_input)), or the exception it raises
ReactToolCall(action, args) ==
    IF action = Chars_get_weather
    THEN IF DOMAIN args # {"location"}
         THEN ToolRaised("get_weather() got unexpected arguments")
         ELSE IF args["location"] = "Paris"
              THEN ToolReturned("{'temp': 18, 'condition': 'cloudy'}")
              ELSE ToolReturned("{'error': 'Weather data not available'}")
    ELSE IF action = Chars_save_note
    THEN IF DOMAIN args # {"text"}
         THEN ToolRaised("save_note() got unexpected arguments")
         ELSE ToolReturned("")
    ELSE IF DOMAIN args # {"expression"}
         THEN ToolRaised("calculator() got unexpected arguments")
         ELSE IF args["expression"] = "2 + 2"
              THEN ToolReturned("4.0")
              ELSE ToolRaised("Invalid expression")

\* faulty variant: _execute_action without its try block
_execute_action_NoTry(action, action_input) ==
    IF action \notin react_tools
    THEN Observation("not_found", action, "")
    ELSE LET call == ReactToolCall(action, action_input) IN
         IF call.raised
         THEN Observation("raised", action, call.message)
         ELSE Observation("result", <<>>, call.text)

\* lines 194-210
_execute_action(action, action_input) ==
    IF action \notin react_tools
    THEN Observation("not_found", action, "")
    ELSE LET call == ReactToolCall(action, action_input) IN
         IF call.raised
         THEN Observation("error", action, call.message)
         ELSE Observation("result", <<>>, call.text)

\* what the reasoning client answers to a prompt
LLMResponses ==
    { LLMResponse(TRUE, "", "", <<>>, NoInput),
      LLMResponse(FALSE, "r1", "I need the weather", Chars_get_weather,
                  JsonInput("location" :> "Paris")),
      LLMResponse(FALSE, "r2", "I now know the final answer", FinalAnswer,
                  JsonInput("answer" :> "18 degrees, cloudy")),
      LLMResponse(FALSE, "r3", "done", Chars_final_answer, NoInput),
      LLMResponse(FALSE, "r4", "search first", Chars_search,
                  TextInput("{query: Paris}")),
      LLMResponse(FALSE, "r5", "compute", Chars_calculator,
                  JsonInput("expression" :> "1 / 0")),
      LLMResponse(FALSE, "r6", "keep a note", Chars_save_note,
                  JsonInput("text" :> "cloudy")),
      LLMResponse(FALSE, "r7", "check it", Chars_verify_final_answer,
                  JsonInput("expression" :> "2 + 2")),
      LLMResponse(FALSE, "It is sunny.", "", <<>>, NoInput) }

\* a line of the conversation in the prompt: its label and what follows it
Line(label, text, action, action_input, observation) ==
    [label |-> label, text |-> text, action |-> action,
     action_input |-> action_input, observation |-> observation]

\* bool(step.observation): None and "" are false
HasObservation(step) ==
    /\ step.observation.kind # "none"
    /\ ~(step.observation.kind = "result" /\ step.observation.text = "")

\* lines 142-147: the lines of one step
StepLines(step) ==
    << Line("Thought", step.thought, <<>>, EmptyInput, NoObservation) >>
    \o (IF step.action # <<>>
        THEN << Line("Action", "", step.action, EmptyInput, NoObservation),
                Line("Action Input", "", <<>>, step.action_input, NoObservation) >>
        ELSE <<>>)
    \o (IF HasObservation(step)
        THEN << Line("Observation", "", <<>>, EmptyInput, step.observation) >>
        ELSE <<>>)

\* lines 139-149: the conversation of the prompt, after the question
RECURSIVE _build_prompt(_)
_build_prompt(history) ==
    IF history = <<>> THEN <<>>
    ELSE _build_prompt(SubSeq(history, 1, Len(history) - 1))
         \o StepLines(history[Len(history)])

\* faulty variant: the loop runs one iteration more than max_iterations
InRange_OneMore(i, n) == i <= n

\* line 56: range(self.max_iterations) still has the iteration i
InRange(i, n) == i < n

\* lines 56-88: one iteration up to the dispatch of its action
ReactThink ==
    /\ react_pc = "think"
    /\ InRange(iteration, max_iterations)
    /\ llm_calls' = llm_calls + 1
    /\ prompts' = Append(prompts, _build_prompt(conversation_history))
    /\ \E response \in LLMResponses :
          /\ replies' = Append(replies, response)
          /\ IF response.raises
             THEN /\ react_pc' = "done"
                  /\ react_result' = [kind |-> "exception", value |-> ""]
                  /\ UNCHANGED <<conversation_history, iteration>>
             ELSE LET step == _parse_response(response) IN
                  /\ conversation_history' = Append(conversation_history, step)
                  /\ IF step.is_final
                     THEN /\ react_pc' = "done"
                          /\ react_result' =
                                [kind |-> "answer",
                                 value |-> IF "answer" \in DOMAIN step.action_input
                                           THEN step.action_input["answer"]
                                           ELSE ""]
                          /\ UNCHANGED iteration
                     ELSE IF step.action # <<>>
                     THEN /\ react_pc' = "act"
                          /\ UNCHANGED <<iteration, react_result>>
                     ELSE /\ react_pc' = "think"
                          /\ iteration' = iteration + 1
                          /\ UNCHANGED react_result
    /\ UNCHANGED <<max_iterations, tool_calls, react_runs, earlier_records>>
    /\ UNCHANGED outsideReact

\* lines 93-94: the action is executed, its observation kept in the step
ReactAct ==
    /\ react_pc = "act"
    /\ LET last == Len(conversation_history)
           step == conversation_history[last]
           observation == _execute_action(step.action, step.action_input)
       IN  /\ conversation_history' =
                 [conversation_history EXCEPT ![last].observation = observation]
           /\ tool_calls' = IF step.action \in react_tools
                            THEN tool_calls + 1 ELSE tool_calls
    /\ iteration' = iteration + 1
    /\ react_pc' = "think"
    /\ UNCHANGED <<max_iterations, react_result, llm_calls, prompts, replies,
                   react_runs, earlier_records>>
    /\ UNCHANGED outsideReact

\* line 100: the iterations are used up
ReactLimit ==
    /\ react_pc = "think"
    /\ ~InRange(iteration, max_iterations)
    /\ react_pc' = "done"
    /\ react_result' = [kind |-> "limit", value |-> ""]
    /\ UNCHANGED <<max_iterations, iteration, conversation_history, llm_calls,
                   tool_calls, prompts, replies, react_runs, earlier_records>>
    /\ UNCHANGED outsideReact

\* line 54: run is called again on the same agent
ReactAgain ==
    /\ react_pc = "done"
    /\ react_runs < MaxRuns
    /\ react_runs' = react_runs + 1
    /\ earlier_records' = Len(conversation_history)
    /\ conversation_history' = <<>>
    /\ react_pc' = "think"
    /\ iteration' = 0
    /\ react_result' = [kind |-> "running", value |-> ""]
    /\ llm_calls' = 0
    /\ tool_calls' = 0
    /\ prompts' = <<>>
    /\ replies' = <<>>
    /\ UNCHANGED max_iterations
    /\ UNCHANGED outsideReact

\* no PlannerExecutorAgent is running
RunIdle ==
    /\ pc = "idle"
    /\ max_replans = 0
    /\ replans_used = 0
    /\ execution_results = <<>>
    /\ outcome = "running"
    /\ plan = <<>>
    /\ results = EmptyMap
    /\ context = EmptyMap
    /\ remaining_steps = <<>>
    /\ ready_steps = <<>>
    /\ batch_pos = 0
    /\ resolved_input = EmptyMap
    /\ executed = <<>>
    /\ planner_calls = 0
    /\ failed_attempts = 0
    /\ last_response = NoResponse
    /\ prior_results = <<>>
    /\ reports = <<>>
    /\ runs = 1
    /\ earlier_report = <<>>

\* ReactAgent.run after line 54
InitReact ==
    /\ react_pc = "think"
    /\ max_iterations \in 0..MaxIterations
    /\ iteration = 0
    /\ conversation_history = <<>>
    /\ react_result = [kind |-> "running", value |-> ""]
    /\ llm_calls = 0
    /\ tool_calls = 0
    /\ prompts = <<>>
    /\ replies = <<>>
    /\ react_runs = 1
    /\ earlier_records = 0
    /\ RunIdle
    /\ frames = <<>>
    /\ LaterIdle

NextReact == ReactThink \/ ReactAct \/ ReactLimit

SpecReact == InitReact /\ [][NextReact]_vars

\* the loop is never suspended for ever: run is one synchronous call
SpecReactFair == SpecReact /\ WF_vars(NextReact)

NextReactRuns == ReactThink \/ ReactAct \/ ReactLimit \/ ReactAgain

\* the same agent runs up to MaxRuns tasks
SpecReactRuns == InitReact /\ [][NextReactRuns]_vars

---------------------------------------------------------------------------
(* ToolRegistry of examples/python-multi-tool/main.py: register and        *)
(* execute on one registry.                                                *)

\* a Tool: its name, the function it calls and where it comes from
Tool(name, function, source) ==
    [name |-> name, function |-> function, source |-> source]

\* the tools handed to register; two of them are named get_weather
RegistryToolPool ==
    { Tool("calculator", "calculator", "native"),
      Tool("read_file", "read_file", "native"),
      Tool("get_weather", "get_weather", "api"),
      Tool("get_weather", "query_database", "mcp") }

\* the names execute is called with; send_email is never registered
RegistryNames == {"calculator", "read_file", "get_weather", "send_email"}

\* the arguments execute is called with
RegistryArguments ==
    { ("expression" :> "2 + 2"), ("expression" :> "1 / 0"),
      ("filepath" :> "notes.txt"), ("city" :> "Paris"),
      ("table" :> "users"), [a \in {} |-> ""] }

\* the one parameter each function has to be given
ParameterOf(function) ==
    CASE function = "calculator" -> "expression"
      [] function = "read_file" -> "filepath"
      [] function = "get_weather" -> "city"
      [] function = "query_database" -> "table"

\* tool.function(**arguments): the text it returns or the exception it raises
RegistryCall(function, arguments) ==
    IF DOMAIN arguments # {ParameterOf(function)}
    THEN [raised |-> TRUE, text |-> "TypeError: wrong keyword arguments"]
    ELSE [raised |-> FALSE,
          text |-> CASE function = "calculator" ->
                          IF arguments["expression"] = "2 + 2"
                          THEN "{result: 4}" ELSE "{error: division by zero}"
                     [] function = "read_file" -> "{error: File not found}"
                     [] function = "get_weather" -> "{city: Paris, source: mock_api}"
                     [] function = "query_database" -> "{table: users, count: 3}"]

\* a call of register or execute as its caller sees it
RegistryOutcome(op, name, arguments, kind, text) ==
    [op |-> op, name |-> name, arguments |-> arguments, kind |-> kind,
     text |-> text]

\* faulty variant: execute without its try block
execute_Propagates(registered, tool_name, arguments) ==
    IF tool_name \notin DOMAIN registered
    THEN RegistryOutcome("execute", tool_name, arguments, "not_found", "")
    ELSE LET call == RegistryCall(registered[tool_name].function, arguments) IN
         IF call.raised
         THEN RegistryOutcome("execute", tool_name, arguments, "raised", call.text)
         ELSE RegistryOutcome("execute", tool_name, arguments, "returned", call.text)

\* lines 432-446: what execute returns
execute(registered, tool_name, arguments) ==
    IF tool_name \notin DOMAIN registered
    THEN RegistryOutcome("execute", tool_name, arguments, "not_found", "")
    ELSE LET call == RegistryCall(registered[tool_name].function, arguments) IN
         IF call.raised
         THEN RegistryOutcome("execute", tool_name, arguments, "failed", call.text)
         ELSE RegistryOutcome("execute", tool_name, arguments, "returned", call.text)

\* lines 227-229
RegistryRegister ==
    /\ \E tool \in RegistryToolPool :
          /\ registry_tools' =
                [n \in DOMAIN registry_tools \cup {tool.name} |->
                    IF n = tool.name THEN tool ELSE registry_tools[n]]
          /\ registry_outcome' =
                RegistryOutcome("register", tool.name, <<>>, "returned", "")
    /\ UNCHANGED outsideRegistry

\* lines 432-446
RegistryExecute ==
    /\ \E tool_name \in RegistryNames, arguments \in RegistryArguments :
          registry_outcome' = execute(registry_tools, tool_name, arguments)
    /\ UNCHANGED registry_tools
    /\ UNCHANGED outsideRegistry

\* the two agents are not in use
AgentsIdle ==
    /\ RunIdle
    /\ frames = <<>>
    /\ ReactIdle

\* lines 223-225: ToolRegistry()
InitRegistry ==
    /\ registry_tools = <<>>
    /\ registry_outcome = [op |-> "none"]
    /\ AgentsIdle
    /\ LastIdle
    /\ WorkerIdle
    /\ BreakerIdle
    /\ RetryIdle

NextRegistry == RegistryRegister \/ RegistryExecute

SpecRegistry == InitRegistry /\ [][NextRegistry]_vars

---------------------------------------------------------------------------
(* The worker agents of examples/python-multi-agent/main.py: process and   *)
(* send_message on one agent.                                              *)

\* most messages in the message_history of the agent
MaxMessages == 2

\* a Message without its timestamp
Message(sender, receiver, content, metadata) ==
    [sender |-> sender, receiver |-> receiver, content |-> content,
     metadata |-> metadata]

\* the four worker classes and the TestAgent of test_multiagent.py
Workers == {"researcher", "coder", "reviewer", "writer", "test"}

\* who writes to a worker
Senders == {"manager", "user"}

\* a tool of self.tools: not given to the agent, returning, or raising
ToolStates == {"absent", "returns", "raises"}

\* _call_llm returns a text or raises
LLMAnswers == { [raises |-> TRUE, text |-> ""],
                [raises |-> FALSE, text |-> "Mocked findings"] }

\* faulty variant: the message is addressed from the receiver to the agent
send_message_SwapsEnds(name, receiver, content, metadata) ==
    Message(receiver, name, content, metadata)

\* lines 68-75: the message send_message creates
send_message(name, receiver, content, metadata) ==
    Message(name, receiver, content, metadata)

\* what a tool adds: nothing when the agent has no such tool
ToolNote(tool, done, failed) ==
    IF tool = "absent" THEN <<>>
    ELSE IF tool = "returns" THEN <<done>> ELSE <<failed>>

\* the content and the metadata process hands to send_message
Reply(name, text, tool, second_tool) ==
    CASE name = "researcher" ->
           [content |-> <<text>>,
            metadata |-> [tool_results |->
               ToolNote(tool, "Search results", "Search failed")
               \o ToolNote(second_tool, "Database results",
                           "Database search failed")]]
      [] name = "coder" ->
           [content |-> <<text>> \o ToolNote(tool, "# Test Results", "# Test failed"),
            metadata |-> [test_result |->
               ToolNote(tool, "Test Results", "Test failed")]]
      [] name = "reviewer" ->
           [content |-> <<text>> \o ToolNote(tool, "Validation", "Validation error"),
            metadata |-> [validation_result |->
               ToolNote(tool, "Validation", "Validation error")]]
      [] name = "writer" ->
           [content |-> IF tool = "returns" THEN <<"formatted", text>>
                        ELSE <<text>>,
            metadata |-> <<>>]
      [] name = "test" ->
           [content |-> <<"Response">>, metadata |-> <<>>]

\* what a call of process gave: the message it returned, or an exception
ProcessOutcome(kind, message, returned) ==
    [kind |-> kind, message |-> message, returned |-> returned]

\* process(message) of the agent, line 76 included
WorkerProcess ==
    /\ Len(message_history) < MaxMessages
    /\ \E sender \in Senders, content \in {"Research Python", "Hello"},
          llm \in LLMAnswers, tool \in ToolStates, second_tool \in ToolStates :
          LET message == Message(sender, agent_name, <<content>>, <<>>)
              reply == Reply(agent_name, llm.text, tool, second_tool)
              msg == send_message(agent_name, message.sender, reply.content,
                                  reply.metadata)
          IN  IF agent_name # "test" /\ llm.raises
              THEN /\ process_outcome' = ProcessOutcome("raised", message, <<>>)
                   /\ UNCHANGED message_history
              ELSE /\ message_history' = Append(message_history, msg)
                   /\ process_outcome' = ProcessOutcome("returned", message, msg)
    /\ UNCHANGED agent_name
    /\ UNCHANGED outsideWorker

\* lines 41-54: the agent after Agent.__init__
InitWorker ==
    /\ agent_name \in Workers
    /\ message_history = <<>>
    /\ process_outcome = [kind |-> "none"]
    /\ AgentsIdle
    /\ LastIdle
    /\ RegistryIdle
    /\ BreakerIdle
    /\ RetryIdle

NextWorker == WorkerProcess

SpecWorker == InitWorker /\ [][NextWorker]_vars

---------------------------------------------------------------------------
(* CircuitBreaker of examples/python-error-handling/main.py: calls of      *)
(* call() on one breaker while the clock advances.                         *)

\* most calls of CircuitBreaker.call on the breaker
MaxCalls == 4

\* the clock stops at MaxTime
MaxTime == 3

\* the failure_threshold values a breaker is built with
Thresholds == 1..2

\* the recovery_timeout values a breaker is built with
Timeouts == 0..2

\* faulty variant: the circuit may be tried again as soon as it has opened
_should_attempt_reset_AtOnce(last, t, timeout) ==
    last = NoFailure \/ t - last >= 0

\* lines 107-111
_should_attempt_reset(last, t, timeout) ==
    last = NoFailure \/ t - last >= timeout

\* faulty variant: a successful trial closes the circuit and keeps the count
_on_success_KeepsCount(entered, count, successes) ==
    IF entered = "half_open"
    THEN [state |-> "closed", failure_count |-> count, success_count |-> 0]
    ELSE [state |-> entered, failure_count |-> count,
          success_count |-> successes + 1]

\* lines 113-121: the state and the counters after func returned
_on_success(entered, count, successes) ==
    IF entered = "half_open"
    THEN [state |-> "closed", failure_count |-> 0, success_count |-> 0]
    ELSE [state |-> entered, failure_count |-> count,
          success_count |-> successes + 1]

\* faulty variant: the circuit opens one failure after the threshold
_on_failure_OpensLate(entered, count, threshold) ==
    [failure_count |-> count + 1,
     state |-> IF count + 1 > threshold THEN "open"
               ELSE IF entered = "half_open" THEN "open"
               ELSE entered]

\* lines 123-138: the state and the count after func raised
_on_failure(entered, count, threshold) ==
    [failure_count |-> count + 1,
     state |-> IF count + 1 >= threshold THEN "open"
               ELSE IF entered = "half_open" THEN "open"
               ELSE entered]

\* what a call of CircuitBreaker.call gave
CallOutcome(kind) == [kind |-> kind]

\* lines 84-105, with _on_success and _on_failure: one call of call(func);
\* func returns or raises after `elapsed` units of time
BreakerCall ==
    /\ breaker_calls < MaxCalls
    /\ breaker_calls' = breaker_calls + 1
    /\ IF /\ state = "open"
          /\ ~_should_attempt_reset(last_failure_time, now, recovery_timeout)
       THEN /\ call_outcome' = CallOutcome("CircuitBreakerOpen")
            /\ UNCHANGED <<state, failure_count, last_failure_time,
                           success_count, now, func_calls>>
       ELSE LET entered == IF state = "open" THEN "half_open" ELSE state IN
            /\ func_calls' = func_calls + 1
            /\ \E raises \in BOOLEAN, elapsed \in 0..1 :
                  /\ now + elapsed <= MaxTime
                  /\ now' = now + elapsed
                  /\ IF ~raises
                     THEN LET after == _on_success(entered, failure_count,
                                                   success_count) IN
                          /\ call_outcome' = CallOutcome("returned")
                          /\ state' = after.state
                          /\ failure_count' = after.failure_count
                          /\ success_count' = after.success_count
                          /\ UNCHANGED last_failure_time
                     ELSE LET after == _on_failure(entered, failure_count,
                                                   failure_threshold) IN
                          /\ call_outcome' = CallOutcome("raised")
                          /\ state' = after.state
                          /\ failure_count' = after.failure_count
                          /\ last_failure_time' = now'
                          /\ UNCHANGED success_count
    /\ UNCHANGED <<failure_threshold, recovery_timeout>>
    /\ UNCHANGED outsideBreaker

\* time.time() has advanced between two calls
BreakerTick ==
    /\ now < MaxTime
    /\ now' = now + 1
    /\ UNCHANGED <<failure_threshold, recovery_timeout, state, failure_count,
                   last_failure_time, success_count, breaker_calls,
                   func_calls, call_outcome>>
    /\ UNCHANGED outsideBreaker

\* lines 77-82: CircuitBreaker(failure_threshold, recovery_timeout)
InitBreaker ==
    /\ failure_threshold \in Thresholds
    /\ recovery_timeout \in Timeouts
    /\ state = "closed"
    /\ failure_count = 0
    /\ last_failure_time = NoFailure
    /\ success_count = 0
    /\ now = 0
    /\ breaker_calls = 0
    /\ func_calls = 0
    /\ call_outcome = [kind |-> "none"]
    /\ AgentsIdle
    /\ LastIdle
    /\ RegistryIdle
    /\ WorkerIdle
    /\ RetryIdle

NextBreaker == BreakerCall \/ BreakerTick

SpecBreaker == InitBreaker /\ [][NextBreaker]_vars

---------------------------------------------------------------------------
(* retry_with_backoff of examples/python-error-handling/main.py: one call  *)
(* of the wrapper around a function, and ResilientTools'                   *)
(* calculate_with_retry, which is such a wrapper.                          *)

\* largest max_retries a function is wrapped with
MaxRetries == 3

\* @retry_with_backoff(max_retries=3, initial_delay=1.0) of line 314
CalcMaxRetries == 3

\* the wrapped functions: one that may raise, and calculate_with_retry
RetryFuncs == {"flaky", "calculate_with_retry"}

\* the exceptions tuples: the default, and one class only
ExceptionTuples == { {"Exception"}, {"ConnectionError"} }

\* the expressions calculate_with_retry is called with
Expressions == {"2 + 2", "1 / 0", "2 +", ""}

\* an invocation of the wrapped function: its return value or its exception
Returns(value) == [raised |-> FALSE, value |-> value, exception |-> "none"]

Raises(exception) == [raised |-> TRUE, value |-> <<>>, exception |-> exception]

\* lines 325-360: the body of calculate_with_retry, which catches
\* ToolValidationError and Exception
calculate(e) ==
    IF e = ""
    THEN Returns([success |-> FALSE, error_type |-> "validation"])
    ELSE IF e = "2 + 2"
    THEN Returns([success |-> TRUE, result |-> 4])
    ELSE Returns([success |-> FALSE, error_type |-> "execution"])

\* what func(*args, **kwargs) can give
FuncResults(f, e) ==
    IF f = "calculate_with_retry" THEN { calculate(e) }
    ELSE { Returns("ok"), Raises("ConnectionError"), Raises("ValueError") }

\* except exceptions as e: every class is an Exception
Listed(exception, listed) == "Exception" \in listed \/ exception \in listed

\* faulty variant: the wrapper gives up one attempt early
IsLastAttempt_OneEarly(a, n) == a + 1 >= n

\* line 172: if attempt == max_retries
IsLastAttempt(a, n) == a = n

RetryOutcome(kind, value, exception) ==
    [kind |-> kind, value |-> value, exception |-> exception]

\* lines 165-184: one iteration of the loop of the wrapper
RetryAttempt ==
    /\ retry_outcome.kind = "running"
    /\ attempt <= max_retries
    /\ \E result \in FuncResults(func, expression) :
          /\ invocations' = Append(invocations, result)
          /\ IF ~result.raised
             THEN /\ retry_outcome' = RetryOutcome("returned", result.value, "none")
                  /\ UNCHANGED <<attempt, delay, sleeps>>
             ELSE IF \/ ~Listed(result.exception, exceptions)
                     \/ IsLastAttempt(attempt, max_retries)
             THEN /\ retry_outcome' = RetryOutcome("raised", <<>>, result.exception)
                  /\ UNCHANGED <<attempt, delay, sleeps>>
             ELSE /\ sleeps' = Append(sleeps, delay)
                  /\ delay' = delay * backoff_factor
                  /\ attempt' = attempt + 1
                  /\ UNCHANGED retry_outcome
    /\ UNCHANGED <<func, max_retries, initial_delay, backoff_factor,
                   exceptions, expression>>
    /\ UNCHANGED outsideRetry

\* lines 161-163: the wrapper has been called
InitRetry ==
    /\ func \in RetryFuncs
    /\ IF func = "calculate_with_retry"
       THEN /\ max_retries = CalcMaxRetries
            /\ initial_delay = 1
            /\ backoff_factor = 2
            /\ exceptions = {"Exception"}
            /\ expression \in Expressions
       ELSE /\ max_retries \in 0..MaxRetries
            /\ initial_delay \in 1..2
            /\ backoff_factor \in 1..3
            /\ exceptions \in ExceptionTuples
            /\ expression = ""
    /\ attempt = 0
    /\ delay = initial_delay
    /\ invocations = <<>>
    /\ sleeps = <<>>
    /\ retry_outcome = [kind |-> "running", value |-> <<>>, exception |-> "none"]
    /\ AgentsIdle
    /\ LastIdle
    /\ RegistryIdle
    /\ WorkerIdle
    /\ BreakerIdle

NextRetry == RetryAttempt

SpecRetry == InitRetry /\ [][NextRetry]_vars

---------------------------------------------------------------------------
(* ToolTracer of scripts/tool_tracer.py: calls of wrapped tools and of     *)
(* clear() on one tracer.                                                  *)

\* most calls of wrapped tools between two calls of clear()
MaxTraced == 3

\* the calls of wrapped tools: the tool, its argument, and what the tool
\* itself does with it
TracedCalls ==
    { [tool_name |-> "calculator", argument |-> "2 + 2", raises |-> FALSE,
       result |-> "4", exception |-> "none", message |-> ""],
      [tool_name |-> "calculator", argument |-> "1 / 0", raises |-> TRUE,
       result |-> "", exception |-> "ZeroDivisionError",
       message |-> "division by zero"],
      [tool_name |-> "weather_api", argument |-> "Paris", raises |-> FALSE,
       result |-> "sunny", exception |-> "none", message |-> ""],
      [tool_name |-> "failing_tool", argument |-> "10", raises |-> TRUE,
       result |-> "", exception |-> "ValueError",
       message |-> "Intentional error for testing"] }

\* the exception the caller is handling when it calls the wrapped tool
Handling == {"none", "KeyError"}

\* lines 97-108: the ToolCall record, without its times
ToolCallRecord(tool_name, counter, argument, result, success, error) ==
    [tool_name |-> tool_name, call_id |-> <<tool_name, counter>>,
     kwargs |-> argument, result |-> result, success |-> success,
     error |-> error]

\* line 115: a bare raise outside the except block re-raises the exception
\* the caller is handling, and fails with RuntimeError when there is none
BareRaise(handling) ==
    IF handling = "none" THEN "RuntimeError" ELSE handling

\* what the caller of the wrapper gets, and what the tool had raised
TracerOutcome(kind, value, exception, tool_exception) ==
    [kind |-> kind, value |-> value, exception |-> exception,
     tool_exception |-> tool_exception]

\* lines 70-118: one call of a wrapped tool
TracerWrapper ==
    /\ call_counter < MaxTraced
    /\ call_counter' = call_counter + 1
    /\ \E call \in TracedCalls, handling \in Handling :
          /\ tracer_calls' =
                Append(tracer_calls,
                       ToolCallRecord(call.tool_name, call_counter + 1,
                                      call.argument,
                                      IF call.raises THEN "None" ELSE call.result,
                                      ~call.raises,
                                      IF call.raises THEN call.message ELSE "None"))
          /\ tracer_outcome' =
                IF call.raises
                THEN TracerOutcome("raised", "", BareRaise(handling),
                                   call.exception)
                ELSE TracerOutcome("returned", call.result, "none", "none")
    /\ UNCHANGED outsideTracer

\* lines 303-307
TracerClear ==
    /\ tracer_calls' = <<>>
    /\ call_counter' = 0
    /\ tracer_outcome' = [kind |-> "cleared"]
    /\ UNCHANGED outsideTracer

\* lines 50-54: ToolTracer()
InitTracer ==
    /\ tracer_calls = <<>>
    /\ call_counter = 0
    /\ tracer_outcome = [kind |-> "none"]
    /\ AgentsIdle
    /\ BesideTracer

NextTracer == TracerWrapper \/ TracerClear

SpecTracer == InitTracer /\ [][NextTracer]_vars

---------------------------------------------------------------------------
(* ManagerAgent of examples/python-multi-agent/main.py: one call of        *)
(* process, with _create_delegation_plan, _execute_plan and                *)
(* _synthesize_results.                                                    *)

\* longest delegation plan the planning call answers with
MaxDelegation == 3

\* the keys of self.workers
ManagerWorkers == {"researcher", "coder", "reviewer"}

\* a step of the plan: the keys its JSON object has, and their values
DelegationStep(agent, keys, depends_on) ==
    [agent |-> agent, keys |-> keys, depends_on |-> depends_on]

AllKeys == {"agent", "subtask", "depends_on"}

\* the steps the planning call may answer with; tester is no worker
DelegationSteps ==
    { DelegationStep("researcher", AllKeys, <<>>),
      DelegationStep("coder", AllKeys, <<"researcher">>),
      DelegationStep("reviewer", AllKeys, <<"researcher", "coder">>),
      DelegationStep("tester", AllKeys, <<>>),
      DelegationStep("coder", {"agent", "subtask"}, <<>>),
      DelegationStep("researcher", {"agent", "depends_on"}, <<>>) }

\* the answers of _call_llm to the planning prompt: the call raises, the
\* text holds no JSON array, the array is not JSON, or it is a list of steps
PlanAnswers ==
    { [kind |-> "raises", steps |-> <<>>],
      [kind |-> "text", steps |-> <<>>],
      [kind |-> "bad_json", steps |-> <<>>] }
    \cup { [kind |-> "plan", steps |-> p] :
              p \in UNION { [1..n -> DelegationSteps] : n \in 0..MaxDelegation } }

\* lines 508-509: step['agent'] and step['subtask'] of the verbose listing
ListingRaises(steps) ==
    \E i \in DOMAIN steps : ~({"agent", "subtask"} \subseteq steps[i].keys)

\* lines 491-516: the plan _create_delegation_plan returns
_create_delegation_plan(response, is_verbose) ==
    IF response.kind # "plan" THEN <<>>
    ELSE IF is_verbose /\ ListingRaises(response.steps) THEN <<>>
    ELSE response.steps

\* lines 539-545: the outputs of the dependencies that are in results
ContextOf(depends_on, done) ==
    SelectSeq(depends_on, LAMBDA dep_agent : dep_agent \in DOMAIN done)

\* what process gave: a string, or an exception and where it came from
ManagerOutcome(kind, text, cause) ==
    [kind |-> kind, text |-> text, cause |-> cause]

\* lines 440-443: the delegation plan is made
ManagerPlan ==
    /\ manager_pc = "plan"
    /\ IF plan_response.kind = "raises"
       THEN /\ manager_pc' = "done"
            /\ manager_outcome' = ManagerOutcome("raised", "", "planning call")
            /\ UNCHANGED delegation_plan
       ELSE LET made == _create_delegation_plan(plan_response, verbose) IN
            /\ delegation_plan' = made
            /\ IF made = <<>>
               THEN /\ manager_pc' = "done"
                    /\ manager_outcome' =
                          ManagerOutcome("returned",
                             "Failed to create a delegation plan.", "")
               ELSE /\ manager_pc' = "execute"
                    /\ UNCHANGED manager_outcome
    /\ plan_pos' = 1
    /\ UNCHANGED <<verbose, plan_response, manager_results, shared_context,
                   dispatched>>
    /\ UNCHANGED outsideManager

\* lines 527-573: one iteration of the loop of _execute_plan
ManagerStep ==
    /\ manager_pc = "execute"
    /\ plan_pos <= Len(delegation_plan)
    /\ LET step == delegation_plan[plan_pos] IN
       IF ~({"agent", "subtask"} \subseteq step.keys)
       THEN /\ manager_pc' = "done"
            /\ manager_outcome' = ManagerOutcome("raised", "KeyError", "step")
            /\ UNCHANGED <<plan_pos, manager_results, shared_context,
                           dispatched>>
       ELSE IF step.agent \notin ManagerWorkers
       THEN /\ plan_pos' = plan_pos + 1
            /\ UNCHANGED <<manager_pc, manager_outcome, manager_results,
                           shared_context, dispatched>>
       ELSE LET depends_on == IF "depends_on" \in step.keys
                              THEN step.depends_on ELSE <<>>
                given == ContextOf(depends_on, manager_results)
            IN  /\ dispatched' =
                      Append(dispatched,
                             [agent |-> step.agent, depends_on |-> depends_on,
                              context |-> given, at |-> plan_pos])
                /\ \E raises \in BOOLEAN :
                      IF raises
                      THEN /\ manager_results' =
                                 Put(manager_results, step.agent, "Error")
                           /\ UNCHANGED shared_context
                      ELSE /\ manager_results' =
                                 Put(manager_results, step.agent, "content")
                           /\ shared_context' =
                                 Put(shared_context, step.agent, "content")
                /\ plan_pos' = plan_pos + 1
                /\ UNCHANGED <<manager_pc, manager_outcome>>
    /\ UNCHANGED <<verbose, plan_response, delegation_plan>>
    /\ UNCHANGED outsideManager

\* lines 455-464: the results are synthesized by one more call of _call_llm
ManagerSynthesize ==
    /\ manager_pc = "execute"
    /\ plan_pos > Len(delegation_plan)
    /\ manager_pc' = "done"
    /\ \E raises \in BOOLEAN :
          manager_outcome' =
             IF raises THEN ManagerOutcome("raised", "", "synthesis call")
             ELSE ManagerOutcome("returned", "final answer", "")
    /\ UNCHANGED <<verbose, plan_response, delegation_plan, plan_pos,
                   manager_results, shared_context, dispatched>>
    /\ UNCHANGED outsideManager

\* lines 406-418: process has been called on a new manager
InitManager ==
    /\ manager_pc = "plan"
    /\ verbose \in BOOLEAN
    /\ plan_response \in PlanAnswers
    /\ delegation_plan = <<>>
    /\ plan_pos = 0
    /\ manager_results = <<>>
    /\ shared_context = <<>>
    /\ dispatched = <<>>
    /\ manager_outcome = [kind |-> "running"]
    /\ AgentsIdle
    /\ BesideManager

NextManager == ManagerPlan \/ ManagerStep \/ ManagerSynthesize

SpecManager == InitManager /\ [][NextManager]_vars

(***************************************************************************)
(* Two calls of ReactAgent.run on one agent, src/examples/                 *)
(* python-react-pattern/main.py lines 38-100.  Each call has its own       *)
(* iteration and step in hand; self.conversation_history is a field of the *)
(* agent.  A call gives way to the other where it waits for the reasoning  *)
(* client (line 69) or for a tool (line 93).                               *)
(***************************************************************************)
InterleavedCalls == 1..2

\* max_iterations of the shared agent
InterleavedIterations == 0..2

\* what the reasoning client answers to the two calls
InterleavedResponses ==
    { response \in LLMResponses :
         response.raises \/ response.raw \in {"r1", "r2", "It is sunny."} }

\* a step in self.conversation_history, with the call and iteration that made it
SharedRecord(owner, n, step) == [owner |-> owner, n |-> n, step |-> step]

SharedSteps(history) == [i \in DOMAIN history |-> history[i].step]

SharedOwners(history) == [i \in DOMAIN history |-> history[i].owner]

\* line 63: the prompt built from self.conversation_history as it is now
SharedPrompt(history) ==
    [lines |-> _build_prompt(SharedSteps(history)), owners |-> SharedOwners(history)]

NoStep == AgentStep("", <<>>, EmptyInput, NoObservation, FALSE)

RunCall(at, i, hand, built, result) ==
    [pc |-> at, iteration |-> i, step |-> hand, prompts |-> built,
     result |-> result]

\* lines 56-69: the next iteration up to its reasoning call, or line 100
NextIteration(call, i, history) ==
    IF InRange(i, shared_iterations)
    THEN RunCall("llm", i, NoStep, Append(call.prompts, SharedPrompt(history)),
                 "running")
    ELSE RunCall("done", i, NoStep, call.prompts, "limit")

\* lines 54-69: the call empties the history and reaches its first reasoning call
CallStart(c) ==
    /\ calls[c].pc = "start"
    /\ shared_history' = <<>>
    /\ calls' = [calls EXCEPT ![c] = NextIteration(calls[c], 0, <<>>)]
    /\ UNCHANGED shared_iterations
    /\ UNCHANGED outsideInterleaved

\* lines 69-93: the reasoning call returns; the step is parsed and appended
CallThink(c) ==
    /\ calls[c].pc = "llm"
    /\ \E response \in InterleavedResponses :
          IF response.raises
          THEN /\ calls' = [calls EXCEPT ![c] =
                               RunCall("done", @.iteration, NoStep, @.prompts,
                                       "exception")]
               /\ UNCHANGED shared_history
          ELSE LET step == _parse_response(response)
                   history == Append(shared_history,
                                     SharedRecord(c, calls[c].iteration, step))
               IN  /\ shared_history' = history
                   /\ calls' = [calls EXCEPT ![c] =
                         IF step.is_final
                         THEN RunCall("done", @.iteration, step, @.prompts,
                                      "answer")
                         ELSE IF step.action # <<>>
                         THEN RunCall("tool", @.iteration, step, @.prompts,
                                      "running")
                         ELSE NextIteration(@, @.iteration + 1, history)]
    /\ UNCHANGED shared_iterations
    /\ UNCHANGED outsideInterleaved

\* lines 93-94 and 56-69: the tool returns; the observation is kept in the
\* step in hand, wherever that step is
CallAct(c) ==
    /\ calls[c].pc = "tool"
    /\ LET call == calls[c]
           observation == _execute_action(call.step.action,
                                          call.step.action_input)
           history == [i \in DOMAIN shared_history |->
                         IF /\ shared_history[i].owner = c
                            /\ shared_history[i].n = call.iteration
                         THEN [shared_history[i] EXCEPT
                                  !.step.observation = observation]
                         ELSE shared_history[i]]
       IN  /\ shared_history' = history
           /\ calls' = [calls EXCEPT ![c] =
                           NextIteration(call, call.iteration + 1, history)]
    /\ UNCHANGED shared_iterations
    /\ UNCHANGED outsideInterleaved

InitInterleaved ==
    /\ AgentsIdle
    /\ BesideInterleaved
    /\ shared_history = <<>>
    /\ shared_iterations \in InterleavedIterations
    /\ calls = [c \in InterleavedCalls |-> RunCall("start", 0, NoStep, <<>>, "running")]

NextInterleaved ==
    \E c \in InterleavedCalls : CallStart(c) \/ CallThink(c) \/ CallAct(c)

SpecInterleaved == InitInterleaved /\ [][NextInterleaved]_vars

(***************************************************************************)
(* RateLimiter and ProductionAgent.chat of src/examples/python-production/ *)
(* main.py.  The clock counts seconds; tokens are counted in sixtieths of  *)
(* a token, so that time_passed * refill_rate, with refill_rate =          *)
(* requests_per_minute / 60.0, is time_passed * capacity sixtieths.        *)
(***************************************************************************)
\* most calls of ProductionAgent.chat
MaxRequests == 3

\* the clock stops at MaxClock seconds
MaxClock == 90

\* line 287: the 60.0 of refill_rate; one token in sixtieths
PerMinute == 60

\* the requests_per_minute a limiter is built with
RequestsPerMinute == 0..2

\* the seconds that pass between two calls
ClockSteps == {30}

Least(a, b) == IF a <= b THEN a ELSE b

\* lines 289-297: self.tokens after _refill at time t
_refill(held, last, t, limit) ==
    Least(limit * PerMinute, held + (t - last) * limit)

\* what a method of the limiter gave: a value, or an exception
LimiterOutcome(op, kind, value) == [op |-> op, kind |-> kind, value |-> value]

\* tokens_needed / self.refill_rate in seconds, as numerator and denominator
Quotient(num, den) == [num |-> num, den |-> den]

\* lines 315-323: the value of wait_time with the refilled tokens
wait_time(held, limit) ==
    IF held >= PerMinute THEN LimiterOutcome("wait_time", "value", Quotient(0, 1))
    ELSE IF limit = 0
    THEN LimiterOutcome("wait_time", "ZeroDivisionError", Quotient(0, 0))
    ELSE LimiterOutcome("wait_time", "value", Quotient(PerMinute - held, limit))

\* what a call of ProductionAgent.chat gave
ChatOutcome(kind, success, retry_after) ==
    [kind |-> kind, success |-> success, retry_after |-> retry_after]

\* lines 299-302
LimiterCanProceed ==
    /\ tokens' = _refill(tokens, last_update, limiter_now, capacity)
    /\ last_update' = limiter_now
    /\ limiter_outcome' = LimiterOutcome("can_proceed", "value", tokens' >= PerMinute)
    /\ UNCHANGED <<capacity, limiter_now, chat_calls, llm_requests,
                   total_requests, total_errors, chat_outcome>>
    /\ UNCHANGED outsideLimiter

\* lines 304-312
LimiterConsume ==
    /\ LET held == _refill(tokens, last_update, limiter_now, capacity) IN
       /\ tokens' = IF held >= PerMinute THEN held - PerMinute ELSE held
       /\ limiter_outcome' = LimiterOutcome("consume", "value", held >= PerMinute)
    /\ last_update' = limiter_now
    /\ UNCHANGED <<capacity, limiter_now, chat_calls, llm_requests,
                   total_requests, total_errors, chat_outcome>>
    /\ UNCHANGED outsideLimiter

\* lines 314-323
LimiterWaitTime ==
    /\ tokens' = _refill(tokens, last_update, limiter_now, capacity)
    /\ last_update' = limiter_now
    /\ limiter_outcome' = wait_time(tokens', capacity)
    /\ UNCHANGED <<capacity, limiter_now, chat_calls, llm_requests,
                   total_requests, total_errors, chat_outcome>>
    /\ UNCHANGED outsideLimiter

\* lines 400-529: one call of chat; the client returns or raises
AgentChat ==
    /\ chat_calls < MaxRequests
    /\ chat_calls' = chat_calls + 1
    /\ last_update' = limiter_now
    /\ LET held == _refill(tokens, last_update, limiter_now, capacity) IN
       IF held >= PerMinute
       THEN /\ tokens' = held - PerMinute
            /\ limiter_outcome' = LimiterOutcome("consume", "value", TRUE)
            /\ llm_requests' = llm_requests + 1
            /\ total_requests' = total_requests + 1
            /\ \E raises \in BOOLEAN :
                  /\ total_errors' = IF raises THEN total_errors + 1
                                     ELSE total_errors
                  /\ chat_outcome' =
                        IF raises
                        THEN ChatOutcome("error", FALSE, Quotient(0, 0))
                        ELSE ChatOutcome("response", TRUE, Quotient(0, 0))
       ELSE LET wait == wait_time(_refill(held, limiter_now, limiter_now,
                                          capacity), capacity) IN
            /\ tokens' = held
            /\ limiter_outcome' = wait
            /\ chat_outcome' =
                  IF wait.kind = "value"
                  THEN ChatOutcome("Rate limit exceeded", FALSE, wait.value)
                  ELSE ChatOutcome(wait.kind, FALSE, Quotient(0, 0))
            /\ UNCHANGED <<llm_requests, total_requests, total_errors>>
    /\ UNCHANGED <<capacity, limiter_now>>
    /\ UNCHANGED outsideLimiter

\* time.time() has advanced between two calls
LimiterTick ==
    /\ \E d \in ClockSteps :
          /\ limiter_now + d <= MaxClock
          /\ limiter_now' = limiter_now + d
    /\ UNCHANGED <<capacity, tokens, last_update, limiter_outcome, chat_calls,
                   llm_requests, total_requests, total_errors, chat_outcome>>
    /\ UNCHANGED outsideLimiter

\* lines 283-287 and 395: ProductionAgent(rate_limit = capacity)
InitLimiter ==
    /\ AgentsIdle
    /\ BesideLimiter
    /\ capacity \in RequestsPerMinute
    /\ tokens = capacity * PerMinute
    /\ last_update = 0
    /\ limiter_now = 0
    /\ limiter_outcome = [op |-> "none"]
    /\ chat_calls = 0
    /\ llm_requests = 0
    /\ total_requests = 0
    /\ total_errors = 0
    /\ chat_outcome = [kind |-> "none"]

NextLimiter ==
    \/ LimiterCanProceed
    \/ LimiterConsume
    \/ LimiterWaitTime
    \/ AgentChat
    \/ LimiterTick

SpecLimiter == InitLimiter /\ [][NextLimiter]_vars

---------------------------------------------------------------------------
(* Vocabulary of the properties. *)

Elems(seq) == { seq[i] : i \in DOMAIN seq }

StepNumsOf(p) == { p[i].step_num : i \in DOMAIN p }

UniqueIds(p) ==
    \A i, j \in DOMAIN p : p[i].step_num = p[j].step_num => i = j

DependenciesInPlan(p) ==
    \A i \in DOMAIN p : Elems(p[i].dependencies.elems) \subseteq StepNumsOf(p)

\* the dependency graph has a topological numbering
Acyclic(p) ==
    \E rank \in [StepNumsOf(p) -> 1..Len(p)] :
        \A i \in DOMAIN p :
            \A d \in Elems(p[i].dependencies.elems) \cap StepNumsOf(p) :
                rank[d] < rank[p[i].step_num]

ValidPlan(p) == UniqueIds(p) /\ DependenciesInPlan(p) /\ Acyclic(p)

\* _execute_plan has returned its report
ExecReturned == pc = "run_check"

TimesExecuted(step) ==
    Cardinality({ k \in DOMAIN executed : executed[k].step = step })

TimesReported(step) ==
    Cardinality({ k \in DOMAIN execution_results :
                    execution_results[k].step = step })

\* the step numbers with a result recorded before the k-th execution
RecordedBefore(k) == { executed[j].step.step_num : j \in 1..(k - 1) }

\* plan[i] has not been executed: fewer executions of it than copies up to i
NotYetExecuted(i) ==
    Cardinality({ j \in 1..i : plan[j] = plan[i] }) > TimesExecuted(plan[i])

\* plan[i] is owed to the next batch: not yet executed, dependencies recorded
OwedToBatch(i) ==
    /\ NotYetExecuted(i)
    /\ Elems(plan[i].dependencies.elems)
           \subseteq RecordedBefore(Len(executed) + 1)

\* the steps owed to the next batch, from plan[i] on, in the plan's order
RECURSIVE ExpectedBatchFrom(_)
ExpectedBatchFrom(i) ==
    IF i > Len(plan) THEN <<>>
    ELSE (IF OwedToBatch(i) THEN <<plan[i]>> ELSE <<>>) \o ExpectedBatchFrom(i + 1)

ExpectedBatch == ExpectedBatchFrom(1)

\* a ready batch has just been computed (lines 238-243)
BatchComputed == batch_pos = 1 /\ pc \in {"exec_resolve", "exec_return"}

---------------------------------------------------------------------------
(* C1: for a plan with unique step ids, dependencies inside the plan and   *)
(* an acyclic dependency graph, _execute_plan terminates, and its report   *)
(* holds exactly one result for every step, each executed exactly once.    *)
C1_ValidPlanFullyExecuted ==
    ValidPlan(plan) =>
        <>( /\ ExecReturned
            /\ Len(execution_results) = Len(plan)
            /\ \A i \in DOMAIN plan :
                  TimesReported(plan[i]) = 1 /\ TimesExecuted(plan[i]) = 1 )

\* a valid three-step plan was executed in full, one step failing
C1_Witness ==
    /\ ExecReturned
    /\ ValidPlan(plan)
    /\ Len(plan) = 3
    /\ Len(execution_results) = 3
    /\ \E k \in DOMAIN execution_results : ~execution_results[k].success

(* C2: every ready batch is exactly the not-yet-executed steps whose every *)
(* dependency has a recorded result (at first: the steps without           *)
(* dependencies), so no step runs before all its dependencies have a       *)
(* result.                                                                 *)
C2_ReadyBatchExact ==
    /\ BatchComputed => ready_steps = ExpectedBatch
    /\ BatchComputed /\ executed = <<>> =>
          ready_steps = SelectSeq(plan, LAMBDA step : step.dependencies.elems = <<>>)
    /\ \A k \in DOMAIN executed :
          Elems(executed[k].step.dependencies.elems) \subseteq RecordedBefore(k)

\* a second batch holding a step whose two dependencies ran in the first
C2_Witness ==
    /\ BatchComputed
    /\ Len(executed) = 2
    /\ \E i \in DOMAIN ready_steps : Len(ready_steps[i].dependencies.elems) = 2

(* C3: _execute_plan terminates for every plan, also with a dependency     *)
(* cycle, a step depending on itself or on a step id not in the plan: the  *)
(* loop stops when no remaining step is ready, and no remaining step is    *)
(* executed.                                                               *)
C3_AlwaysTerminates ==
    /\ <>ExecReturned
    /\ [](ExecReturned =>
            /\ Len(executed) + Len(remaining_steps) = Len(plan)
            /\ \A i \in DOMAIN remaining_steps :
                  /\ TimesExecuted(remaining_steps[i]) = 0
                  /\ TimesReported(remaining_steps[i]) = 0
                  /\ ~DependenciesMet(remaining_steps[i], results))

\* the loop stopped with one step executed and two left in a cycle
C3_Witness ==
    /\ ExecReturned
    /\ Len(executed) = 1
    /\ Len(remaining_steps) = 2
    /\ UniqueIds(plan)
    /\ DependenciesInPlan(plan)

(* C4: steps that can never become ready appear in the report as skipped;  *)
(* no plan step is missing from the report.                                *)
C4_SkippedStepsReported ==
    ExecReturned => \A i \in DOMAIN plan : TimesReported(plan[i]) >= 1

---------------------------------------------------------------------------
(* The orders a plan's steps can be listed in. *)

Reordered(p, perm) == [i \in DOMAIN p |-> p[perm[i]]]

Listings(p) == { Reordered(p, perm) : perm \in Permutations(DOMAIN p) }

(* C8: order-independence: with deterministic tools, executing the members *)
(* of a ready batch in any order (listing the plan's steps in any order)   *)
(* gives the same final Context and the same ExecutionReport.  Stated for  *)
(* the plans with unique ids, known dependencies and no cycle.             *)
C8_OrderIndependent ==
    ExecReturned /\ ValidPlan(plan) =>
        \A listing \in Listings(plan) :
            _execute_plan(listing)
                = [report |-> execution_results, context |-> context]

(* C9: for a plan with unique step ids, at every point of _execute_plan    *)
(* the key stepN is in the Context exactly when step N has a recorded      *)
(* successful result, and holds that step's output; a failed step records  *)
(* its error and adds nothing; no Context entry is removed or changed.     *)
C9_ContextMatchesResults ==
    /\ [](UniqueIds(plan) =>
            /\ DOMAIN context \subseteq { StepKey(n) : n \in DOMAIN results }
            /\ \A n \in DOMAIN results :
                  /\ StepKey(n) \in DOMAIN context <=> results[n].success
                  /\ results[n].success =>
                        /\ context[StepKey(n)] = results[n].output
                        /\ results[n].error = NoneVal
                  /\ ~results[n].success =>
                        /\ results[n].error.kind = "str"
                        /\ results[n].output = NoneVal)
    /\ [][UniqueIds(plan) =>
            \A key \in DOMAIN context :
                key \in DOMAIN context' /\ context'[key] = context[key]]_vars

\* a failed step was recorded while an earlier output stays in the Context
C9_Witness ==
    /\ UniqueIds(plan)
    /\ \E n, m \in DOMAIN results :
          /\ results[n].success
          /\ ~results[m].success
          /\ StepKey(n) \in DOMAIN context
          /\ StepKey(m) \notin DOMAIN context

\* the reference marker of a Context key: "$" followed by the key
MarkerOf(key) == StrVal(<<"$">> \o key)

(* C10: _resolve_references returns a mapping with the keys of tool_input: *)
(* a marker $stepN whose stepN is in the context becomes context[stepN], a *)
(* marker whose step is absent stays as it is, every other value is        *)
(* unchanged.  For the plan [1: add(a=2,b=3); 2: multiply(x=$step1,y=4)    *)
(* after 1] step 2 is invoked with x=5 and the execution ends with two     *)
(* successes and the Context {step1: 5, step2: 20}.                        *)
C10_ReferencesResolved ==
    /\ pc = "exec_invoke" =>
          LET tool_input == ready_steps[batch_pos].tool_input.items IN
          /\ DOMAIN resolved_input = DOMAIN tool_input
          /\ \A name \in DOMAIN tool_input :
                IF \E key \in DOMAIN context : tool_input[name] = MarkerOf(key)
                THEN \A key \in DOMAIN context :
                        tool_input[name] = MarkerOf(key) =>
                            resolved_input[name] = context[key]
                ELSE resolved_input[name] = tool_input[name]
    /\ ExecReturned /\ plan = ScenarioPlan =>
          /\ Len(execution_results) = 2
          /\ execution_results[1].success /\ execution_results[2].success
          /\ executed[2].input["x"] = IntVal(5)
          /\ context = (StepKey(1) :> IntVal(5)) @@ (StepKey(2) :> IntVal(20))

\* one input with a resolved marker and an unresolved one, about to be used
C10_Witness ==
    /\ pc = "exec_invoke"
    /\ LET tool_input == ready_steps[batch_pos].tool_input.items IN
       /\ \E name \in DOMAIN tool_input :
             /\ tool_input[name] = StrVal(Chars_step1)
             /\ resolved_input[name] = IntVal(5)
       /\ \E name \in DOMAIN tool_input :
             /\ tool_input[name] = StrVal(Chars_step2)
             /\ resolved_input[name] = tool_input[name]

---------------------------------------------------------------------------
(* Properties of run. *)

RunDone == pc = "done"

(* C5: run returns the synthesized answer only for an attempt in which     *)
(* every step of the plan was executed successfully.                       *)
C5_SuccessMeansAllStepsSucceeded ==
    RunDone /\ outcome = "answer" =>
        /\ Len(execution_results) = Len(plan)
        /\ \A i \in DOMAIN plan :
              \E k \in DOMAIN execution_results :
                  /\ execution_results[k].step = plan[i]
                  /\ execution_results[k].success

C7_NoExceptionEscapes ==
    RunDone => outcome \in {"plan_failed", "answer", "partial", "unable"}

---------------------------------------------------------------------------
(* Failures inside _execute_plan. *)

\* some step numbered n was executed and no execution of that number succeeded
FailedStep(n) ==
    /\ \E k \in DOMAIN executed : executed[k].step.step_num = n
    /\ \A k \in DOMAIN executed :
          executed[k].step.step_num = n => ~executed[k].result.success

(* C11: a dependency is satisfied by a recorded result, failed or not: when *)
(* a batch is computed every step not yet executed whose dependencies all  *)
(* have a recorded result is in it, and a step invoked with a reference to *)
(* a failed step receives the reference marker itself.                     *)
C11_FailedDependencySatisfies ==
    /\ BatchComputed =>
          \A i \in DOMAIN plan :
             (/\ NotYetExecuted(i)
              /\ Elems(plan[i].dependencies.elems)
                     \subseteq RecordedBefore(Len(executed) + 1))
                => plan[i] \in Elems(ready_steps)
    /\ pc = "exec_invoke" =>
          LET tool_input == ready_steps[batch_pos].tool_input.items IN
          \A name \in DOMAIN tool_input :
             \A n \in StepNums :
                (FailedStep(n) /\ tool_input[name] = MarkerOf(StepKey(n)))
                   => resolved_input[name] = MarkerOf(StepKey(n))

\* a step is invoked after its only dependency failed, marker in hand
C11_Witness ==
    /\ pc = "exec_invoke"
    /\ LET step == ready_steps[batch_pos] IN
       /\ step.dependencies.elems = <<1>>
       /\ FailedStep(1)
       /\ \E name \in DOMAIN step.tool_input.items :
             /\ step.tool_input.items[name] = MarkerOf(StepKey(1))
             /\ resolved_input[name] = MarkerOf(StepKey(1))

(* C12: a failing step does not abort _execute_plan: the step of an        *)
(* unregistered tool and the step whose tool raises get a failed result    *)
(* holding the error message as raised, nothing is raised to the caller,   *)
(* the failed result is in the report, and at the return no step is left   *)
(* whose dependencies all have a recorded result.                          *)
C12_FailureRecordedExecutionContinues ==
    /\ (\E k \in DOMAIN executed : ~executed[k].result.success)
          => outcome = "running"
    /\ executed # <<>> =>
          LET e == executed[Len(executed)]
              call == ToolCall(e.step.tool, e.input)
          IN  /\ results[e.step.step_num] = e.result
              /\ e.step.tool \notin tools =>
                    e.result = ExecutionResult(e.step, FALSE, NoneVal,
                                   StrVal(<<"Tool '", e.step.tool, "' not found">>))
              /\ (e.step.tool \in tools /\ call.raised) =>
                    e.result = ExecutionResult(e.step, FALSE, NoneVal,
                                               StrVal(call.message))
    /\ ExecReturned =>
          /\ \A n \in DOMAIN results :
                \E k \in DOMAIN execution_results :
                   execution_results[k] = results[n]
          /\ \A i \in DOMAIN plan : ~OwedToBatch(i)

\* an unregistered tool and a raising tool failed, a later step succeeded
C12_Witness ==
    /\ ExecReturned
    /\ \E k \in DOMAIN executed :
          executed[k].step.tool \notin tools /\ ~executed[k].result.success
    /\ \E k, j \in DOMAIN executed :
          /\ k < j
          /\ executed[k].step.tool \in tools
          /\ ~executed[k].result.success
          /\ executed[j].result.success
    /\ \E k \in DOMAIN execution_results : ~execution_results[k].success

\* executed[k] was given, under the name, a reference to a step of the plan
\* that never ran
RefersToSkipped(k, name) ==
    \E n \in StepNumsOf(plan) \ RecordedBefore(Len(executed) + 1) :
        executed[k].step.tool_input.items[name] = MarkerOf(StepKey(n))

(* C13 as stated: a step whose input references a step that never ran is  *)
(* invoked with the reference marker and its invocation fails.             *)
C13_SkippedReferenceFailsStep ==
    ExecReturned =>
        \A k \in DOMAIN executed :
           \A name \in DOMAIN executed[k].step.tool_input.items :
              RefersToSkipped(k, name) =>
                 /\ executed[k].input[name] = executed[k].step.tool_input.items[name]
                 /\ ~executed[k].result.success

(* C13: a step whose input references a step that never ran is invoked    *)
(* with the reference marker as the argument, nothing is raised to the     *)
(* caller, and its result is a failure exactly when its tool is not        *)
(* registered or raises on the arguments the call was made with.           *)
C13_SkippedReferenceReachesTool ==
    ExecReturned =>
        \A k \in DOMAIN executed :
           \A name \in DOMAIN executed[k].step.tool_input.items :
              RefersToSkipped(k, name) =>
                 /\ executed[k].input[name] = executed[k].step.tool_input.items[name]
                 /\ outcome = "running"
                 /\ executed[k].result.success <=>
                       /\ executed[k].step.tool \in tools
                       /\ ~ToolCall(executed[k].step.tool, executed[k].input).raised

\* format_report succeeded on the marker of a skipped step, multiply failed
\* on it
C13_Witness ==
    /\ ExecReturned
    /\ \E k \in DOMAIN executed :
          \E name \in DOMAIN executed[k].step.tool_input.items :
             /\ RefersToSkipped(k, name)
             /\ executed[k].result.success
             /\ executed[k].result.output.str[Len(executed[k].result.output.str)] = "1"
    /\ \E k \in DOMAIN executed :
          \E name \in DOMAIN executed[k].step.tool_input.items :
             /\ RefersToSkipped(k, name)
             /\ executed[k].step.tool = "multiply"
             /\ ~executed[k].result.success

---------------------------------------------------------------------------
(* Planning inside run. *)

\* the response holds no plan: no JSON array in the text, JSON that does not
\* parse, a step lacking a required field, or an empty array
InvalidResponse(response) ==
    /\ ~response.raises
    /\ \/ ~response.has_array
       \/ ~response.json_ok
       \/ response.steps = <<>>
       \/ \E i \in DOMAIN response.steps : ~response.steps[i].complete

\* this step is a planning call
PlanningCall == pc = "run_while" /\ planner_calls' = planner_calls + 1

(* C14: a planning call whose response holds no plan ends the run at once  *)
(* with the plan-failure answer; the step executes nothing, not even the   *)
(* complete steps of the response, and after the plan-failure answer no    *)
(* planning call and no step execution follows in that run: the only thing *)
(* that can follow is another call of run.                                 *)
C14_InvalidResponseEndsRun ==
    [][/\ (PlanningCall /\ InvalidResponse(last_response')) =>
             /\ pc' = "done"
             /\ outcome' = "plan_failed"
             /\ UNCHANGED <<plan, executed, results, context, remaining_steps>>
       /\ (pc = "done" /\ outcome = "plan_failed") =>
             /\ runs' = runs + 1
             /\ planner_calls' = 0
             /\ executed' = <<>>]_vars

\* a replanning call got a response with a complete step and one lacking a
\* field, and the run ended with the plan-failure answer
C14_Witness ==
    /\ pc = "done"
    /\ outcome = "plan_failed"
    /\ planner_calls = 2
    /\ InvalidResponse(last_response)
    /\ \E i \in DOMAIN last_response.steps : last_response.steps[i].complete
    /\ \A k \in DOMAIN executed : executed[k].step \in Elems(plan)
    /\ last_response.steps[1].step \notin Elems(plan)

\* the steps a response holds, when each has its fields
StepsOf(response) == [i \in DOMAIN response.steps |-> response.steps[i].step]

\* a response that parses to steps, two of them with one step id or one of
\* them with a dependency id no step of the response has
MalformedIds(response) ==
    /\ response # NoResponse
    /\ ~response.raises /\ response.has_array /\ response.json_ok
    /\ \A i \in DOMAIN response.steps : response.steps[i].complete
    /\ ~UniqueIds(StepsOf(response)) \/ ~DependenciesInPlan(StepsOf(response))

(* C15: a response in which two steps share a step id, or in which a step  *)
(* lists a dependency id that no step of the response has, is a plan       *)
(* parsing failure: the run ends with the plan-failure answer and the plan *)
(* is never handed to _execute_plan.                                       *)
C15_MalformedIdsRejected ==
    MalformedIds(last_response) => (pc = "done" /\ outcome = "plan_failed")

\* the positions of the control flow inside _execute_plan
ExecPcs == {"exec_while", "exec_resolve", "exec_invoke", "exec_return"}

\* the answers run returns: synthesized, partial, plan failure, line 123
TerminalOutcomes == {"answer", "partial", "plan_failed", "unable"}

(* C16: a run goes PLANNING -> EXECUTING -> (SUCCESS | REPLANNING |        *)
(* PARTIAL_FAILURE): _execute_plan is entered only by a planning call that *)
(* returned a non-empty plan, and with that plan; after a report the run   *)
(* synthesizes, plans again or ends with the partial answer, and a run     *)
(* sent back to planning does plan; nothing but another call of run        *)
(* follows the end of a run; there are at most max_replans + 1 planning    *)
(* calls, and every run ends by returning one of its answers.              *)
C16_RunStateMachine ==
    /\ [][/\ (pc \notin ExecPcs /\ pc' \in ExecPcs) =>
                (/\ PlanningCall
                 /\ plan' # <<>>
                 /\ plan' = _create_plan(last_response'))
          /\ (pc = "run_check") => (pc' \in {"run_synthesize", "run_while", "done"})
          /\ (pc = "done") =>
                (runs' = runs + 1 /\ planner_calls' = 0 /\ executed' = <<>>)]_vars
    /\ []((pc = "run_while" /\ planner_calls > 0) => replans_used <= max_replans)
    /\ [](planner_calls <= IF max_replans < 0 THEN 0 ELSE max_replans + 1)
    /\ [](RunDone => outcome \in TerminalOutcomes)
    /\ (pc # "done") ~> (pc = "done")

(* C17: the first planning call of a run is given no previous results, in *)
(* a first run and in a later one; every later planning call is given the *)
(* report of the attempt just before it and nothing else: for each result  *)
(* of that report its success flag, its step number and its output or its  *)
(* error message.                                                          *)
C17_PlannerGetsLastReportOnly ==
    /\ planner_calls = 1 => prior_results = <<>>
    /\ planner_calls > 1 =>
          LET report == reports[planner_calls - 1] IN
          /\ Len(prior_results) = Len(report)
          /\ \A i \in DOMAIN report :
                /\ prior_results[i].success = report[i].success
                /\ prior_results[i].step_num = report[i].step.step_num
                /\ prior_results[i].text =
                      IF report[i].success THEN TextOf(report[i].output)
                      ELSE report[i].error.str

\* the third planning call of a second run: an earlier run left a report,
\* the first attempt's report differs from the second's, which is the one given
C17_Witness ==
    /\ runs = 2
    /\ earlier_report # <<>>
    /\ planner_calls = 3
    /\ Len(reports) >= 2
    /\ reports[1] # reports[2]
    /\ Len(prior_results) = Len(reports[2])
    /\ \E i \in DOMAIN prior_results : ~prior_results[i].success

---------------------------------------------------------------------------
(* Ownership of the plan and of the execution state. *)

(* C18: _execute_plan does not mutate the plan it is given: no step of the *)
(* execution changes the caller's list, neither its steps nor their order  *)
(* nor a step's tool, tool_input or dependencies; the steps executed and   *)
(* the steps reported are steps of the plan as it was given, reference     *)
(* markers included, the resolved values being in a mapping of their own.  *)
C18_PlanNotMutated ==
    /\ [][plan' = plan]_vars
    /\ [](\A k \in DOMAIN executed :
            /\ executed[k].step \in Elems(plan)
            /\ executed[k].result.step = executed[k].step)
    /\ [](ExecReturned =>
            \A k \in DOMAIN execution_results :
               execution_results[k].step \in Elems(plan))

\* three steps were executed, one of them on a resolved reference, and the
\* working list was emptied
C18_Witness ==
    /\ ExecReturned
    /\ Len(plan) = 3
    /\ Len(executed) = 3
    /\ remaining_steps = <<>>
    /\ \E k \in DOMAIN executed :
          executed[k].input # executed[k].step.tool_input.items

(* C19: the context and the report of a call of _execute_plan belong to    *)
(* that call: with two calls on one agent interleaved around their tool    *)
(* calls, a step of one call leaves the locals of the other as they were,  *)
(* a call's context and results hold only what its own plan's steps        *)
(* produced, and each call returns the report and ends with the context it *)
(* would have had alone.                                                   *)
C19_ExecutionOwnsItsState ==
    /\ [][\A f, g \in DOMAIN frames :
            (frames'[f] # frames[f] /\ g # f) => frames'[g] = frames[g]]_vars
    /\ [](\A f \in DOMAIN frames :
            /\ \A n \in DOMAIN frames[f].results :
                  frames[f].results[n].step \in Elems(frames[f].plan)
            /\ \A key \in DOMAIN frames[f].context :
                  \E n \in DOMAIN frames[f].results :
                     /\ key = StepKey(n)
                     /\ frames[f].results[n].success
                     /\ frames[f].context[key] = frames[f].results[n].output
            /\ frames[f].pc = "run_check" =>
                  _execute_plan(frames[f].plan) =
                     [report |-> frames[f].execution_results,
                      context |-> frames[f].context])

\* one call produced step1 while the other, which refers to $step1 and has
\* no step 1, was in progress; that one was given the marker and failed
C19_Witness ==
    /\ Len(frames) = 2
    /\ frames[1].plan = ScenarioPlan
    /\ frames[2].plan = ReferencePlan
    /\ StepKey(1) \in DOMAIN frames[1].context
    /\ frames[2].pc = "exec_invoke"
    /\ frames[2].resolved_input["x"] = StrVal(Chars_step1)
    /\ frames[1].pc = "exec_invoke"

---------------------------------------------------------------------------
(* Properties of ReactAgent.run. *)

(* C20: ReactAgent.run returns at the first iteration whose parsed action  *)
(* is Final Answer, with the answer field of that step's action_input; no  *)
(* tool is invoked in that iteration and nothing is called after it.  When *)
(* that is iteration k there have been k reasoning calls and at most k - 1 *)
(* tool invocations; in the weather scenario (get_weather, then Final      *)
(* Answer) k is 2, with one tool invocation.                               *)
C20_FinalAnswerReturns ==
    /\ [](\A i \in DOMAIN conversation_history :
            conversation_history[i].action = FinalAnswer =>
               /\ i = Len(conversation_history)
               /\ react_pc = "done"
               /\ react_result.kind = "answer"
               /\ react_result.value =
                     IF "answer" \in DOMAIN conversation_history[i].action_input
                     THEN conversation_history[i].action_input["answer"]
                     ELSE ""
               /\ conversation_history[i].observation = NoObservation
               /\ llm_calls = i
               /\ tool_calls <= i - 1)
    /\ [][react_pc = "done" =>
            (llm_calls' = llm_calls /\ tool_calls' = tool_calls)]_vars
    /\ []((/\ Len(conversation_history) = 2
           /\ conversation_history[1].action = Chars_get_weather
           /\ conversation_history[2].action = FinalAnswer)
             => (/\ llm_calls = 2
                 /\ tool_calls = 1
                 /\ react_result.value = "18 degrees, cloudy"))

\* the weather scenario at its end
C20_Witness ==
    /\ react_pc = "done"
    /\ Len(conversation_history) = 2
    /\ conversation_history[1].action = Chars_get_weather
    /\ conversation_history[1].observation.kind = "result"
    /\ conversation_history[2].action = FinalAnswer
    /\ react_result = [kind |-> "answer", value |-> "18 degrees, cloudy"]
    /\ llm_calls = 2
    /\ tool_calls = 1

\* the reserved name, in whatever case it is written
IsSentinel(action) == Lower(action) = Chars_final_answer

\* the step at position i has been through lines 88-94
Dispatched(i) == i < Len(conversation_history) \/ react_pc # "act"

(* C21: every action name other than the reserved Final Answer is          *)
(* dispatched to the tool set: the step does not end the loop, and its     *)
(* observation is what _execute_action gives for it (the string of the     *)
(* tool's return value, or the not-found text for an unregistered name).   *)
C21_OtherActionsDispatched ==
    \A i \in DOMAIN conversation_history :
        LET step == conversation_history[i] IN
        (step.action # <<>> /\ ~IsSentinel(step.action)) =>
            /\ ~step.is_final
            /\ Dispatched(i) =>
                  step.observation =
                     _execute_action(step.action, step.action_input)

\* run has raised: the exception of the reasoning call left it
ReactRaised == react_pc = "done" /\ react_result.kind = "exception"

\* run has returned the iteration-limit message
ReactLimitReached == react_pc = "done" /\ react_result.kind = "limit"

(* C22: ReactAgent.run ends, after at most max_iterations reasoning calls. *)
(* It returns the iteration-limit message, as a value, exactly when all    *)
(* max_iterations iterations went by without a final step; with           *)
(* max_iterations = 0 that is at once, with no reasoning call, no tool     *)
(* invocation and no record, and nothing raised.                           *)
C22_BoundedIterations ==
    /\ <>(react_pc = "done")
    /\ [](llm_calls <= max_iterations /\ tool_calls <= max_iterations)
    /\ [](ReactLimitReached =>
            /\ llm_calls = max_iterations
            /\ Len(conversation_history) = max_iterations
            /\ \A i \in DOMAIN conversation_history :
                  ~conversation_history[i].is_final)
    /\ []((/\ react_pc = "done"
           /\ llm_calls = max_iterations
           /\ ~ReactRaised
           /\ \A i \in DOMAIN conversation_history :
                 ~conversation_history[i].is_final)
             => ReactLimitReached)
    /\ [](max_iterations = 0 =>
            /\ llm_calls = 0
            /\ tool_calls = 0
            /\ conversation_history = <<>>
            /\ ~ReactRaised
            /\ react_pc = "done" => ReactLimitReached)

\* three iterations without a final step, then the limit message
C22_Witness ==
    /\ ReactLimitReached
    /\ max_iterations = MaxIterations
    /\ llm_calls = MaxIterations
    /\ tool_calls > 0

\* no iteration allowed: the limit message at once
C22_WitnessZero ==
    /\ ReactLimitReached
    /\ max_iterations = 0
    /\ llm_calls = 0

\* the response with neither Thought: nor Action: in it
Unstructured(response) ==
    ~response.raises /\ response.thought = "" /\ response.action = <<>>

(* C23: a response without Thought:/Action: structure makes a record whose *)
(* thought is the whole response and that has no action, no input and no   *)
(* observation; the iteration invokes no tool and raises nothing, and the  *)
(* loop goes on to the next iteration or to the iteration-limit result.    *)
C23_UnstructuredResponseIsThought ==
    /\ [](\A i \in DOMAIN replies :
            Unstructured(replies[i]) =>
               /\ i \in DOMAIN conversation_history
               /\ conversation_history[i] =
                     AgentStep(replies[i].raw, <<>>, EmptyInput,
                               NoObservation, FALSE))
    /\ [][(/\ react_pc = "think"
           /\ Len(replies') = Len(replies) + 1
           /\ Unstructured(replies'[Len(replies')]))
             => /\ react_pc' = "think"
                /\ iteration' = iteration + 1
                /\ tool_calls' = tool_calls
                /\ react_result' = react_result]_vars
    /\ [](\A i \in DOMAIN replies :
            (Unstructured(replies[i]) /\ i = Len(replies) /\ react_pc = "done")
               => ReactLimitReached)

\* an unstructured response, then the weather, then another one and the limit
C23_Witness ==
    /\ ReactLimitReached
    /\ Len(replies) = 3
    /\ Unstructured(replies[1])
    /\ ~Unstructured(replies[2])
    /\ Unstructured(replies[3])
    /\ tool_calls = 1

\* the lines that replay one record in full: its observation whenever its
\* action was executed
FullStepLines(step) ==
    << Line("Thought", step.thought, <<>>, EmptyInput, NoObservation) >>
    \o (IF step.action # <<>>
        THEN << Line("Action", "", step.action, EmptyInput, NoObservation),
                Line("Action Input", "", <<>>, step.action_input, NoObservation) >>
        ELSE <<>>)
    \o (IF step.observation.kind # "none"
        THEN << Line("Observation", "", <<>>, EmptyInput, step.observation) >>
        ELSE <<>>)

RECURSIVE FullReplay(_)
FullReplay(history) ==
    IF history = <<>> THEN <<>>
    ELSE FullReplay(SubSeq(history, 1, Len(history) - 1))
         \o FullStepLines(history[Len(history)])

\* the record without its observation, which line 94 fills in later
Appended(step) == [step EXCEPT !.observation = NoObservation]

(* C24: each iteration of ReactAgent.run appends exactly one record to the *)
(* transcript; during a run no record is removed or moved; the prompt of   *)
(* iteration i replays the i - 1 earlier records of this run in order,     *)
(* with the observation of every action that was executed; and a new run   *)
(* starts from an empty transcript, so it replays nothing of the run       *)
(* before it.                                                              *)
C24_TranscriptReplayed ==
    /\ [][(react_runs' = react_runs) =>
            /\ Len(conversation_history') >= Len(conversation_history)
            /\ \A i \in DOMAIN conversation_history :
                  Appended(conversation_history'[i]) =
                     Appended(conversation_history[i])
            /\ (iteration' = iteration + 1) =>
                  Len(conversation_history') = iteration']_vars
    /\ [](\A i \in DOMAIN prompts :
            /\ i - 1 <= Len(conversation_history)
            /\ prompts[i] = FullReplay(SubSeq(conversation_history, 1, i - 1)))
    /\ [][(react_runs' # react_runs) => conversation_history' = <<>>]_vars
    /\ [](prompts # <<>> => prompts[1] = <<>>)

\* the call of the function behind a registered name
CallOf(registered, name, arguments) ==
    RegistryCall(registered[name].function, arguments)

(* C25: execute never lets the exception of a tool reach its caller and    *)
(* never changes the registry: an unknown name gives the not-found         *)
(* outcome, a tool that raises gives the execution-failure outcome with    *)
(* the message of the exception, and the registered tools are the same     *)
(* after the call as before it.                                            *)
C25_ExecuteContainsFailures ==
    /\ [](registry_outcome.op = "execute" => registry_outcome.kind # "raised")
    /\ [][registry_outcome'.op = "execute" =>
            LET name == registry_outcome'.name
                arguments == registry_outcome'.arguments
            IN  /\ registry_tools' = registry_tools
                /\ (name \notin DOMAIN registry_tools)
                      <=> (registry_outcome'.kind = "not_found")
                /\ (/\ name \in DOMAIN registry_tools
                    /\ CallOf(registry_tools, name, arguments).raised)
                      => /\ registry_outcome'.kind = "failed"
                         /\ registry_outcome'.text =
                               CallOf(registry_tools, name, arguments).text
                /\ (/\ name \in DOMAIN registry_tools
                    /\ ~CallOf(registry_tools, name, arguments).raised)
                      => /\ registry_outcome'.kind = "returned"
                         /\ registry_outcome'.text =
                               CallOf(registry_tools, name, arguments).text]_vars

\* get_weather is registered and called with the arguments of calculator
C25_Witness ==
    /\ registry_outcome.op = "execute"
    /\ registry_outcome.kind = "failed"
    /\ registry_outcome.name = "get_weather"
    /\ registry_outcome.arguments = ("expression" :> "2 + 2")
    /\ DOMAIN registry_tools = {"calculator", "get_weather"}

C27_ReplyGoesBackToSender ==
    [][process_outcome'.kind = "returned" =>
          /\ process_outcome'.returned.sender = agent_name
          /\ process_outcome'.returned.receiver =
                process_outcome'.message.sender
          /\ message_history' =
                Append(message_history, process_outcome'.returned)
          /\ \A i \in DOMAIN message_history :
                message_history'[i] = message_history[i]]_vars

\* the researcher has answered the user and then the manager
C27_Witness ==
    /\ agent_name = "researcher"
    /\ process_outcome.kind = "returned"
    /\ Len(message_history) = 2
    /\ message_history[1].receiver = "user"
    /\ message_history[2].receiver = "manager"
    /\ message_history[2].metadata.tool_results # <<>>

\* the circuit is open and the recovery period has not passed
StillOpen ==
    /\ state = "open"
    /\ last_failure_time # NoFailure
    /\ now - last_failure_time < recovery_timeout

(* C28: while the circuit is OPEN and less than recovery_timeout has       *)
(* passed since the last failure, a call of call() raises                  *)
(* CircuitBreakerOpen, does not invoke the wrapped function and leaves     *)
(* state, failure_count and last_failure_time as they were; from an OPEN   *)
(* circuit the function is invoked only once the recovery period is over.  *)
C28_OpenCircuitRejects ==
    /\ [](state = "open" => last_failure_time # NoFailure)
    /\ [][(StillOpen /\ breaker_calls' = breaker_calls + 1) =>
            /\ call_outcome'.kind = "CircuitBreakerOpen"
            /\ func_calls' = func_calls
            /\ state' = state
            /\ failure_count' = failure_count
            /\ last_failure_time' = last_failure_time]_vars
    /\ [][(state = "open" /\ func_calls' # func_calls) =>
            now - last_failure_time >= recovery_timeout]_vars

\* two failures opened the circuit, a call was rejected, and after the
\* recovery period the function was invoked again
C28_WitnessRecovered ==
    /\ failure_threshold = 2
    /\ recovery_timeout = 2
    /\ breaker_calls = 4
    /\ func_calls = 3
    /\ state = "closed"
    /\ call_outcome.kind = "returned"

\* the circuit is open and the call has just been rejected
C28_Witness ==
    /\ StillOpen
    /\ call_outcome.kind = "CircuitBreakerOpen"
    /\ func_calls < breaker_calls

RECURSIVE Pow(_, _)
Pow(b, k) == IF k = 0 THEN 1 ELSE b * Pow(b, k - 1)

\* the invocations before the last all raised an exception of the tuple
EarlierAllListed ==
    \A i \in 1..(Len(invocations) - 1) :
        invocations[i].raised /\ Listed(invocations[i].exception, exceptions)

LastInvocation == invocations[Len(invocations)]

(* C29: a call of a function wrapped by retry_with_backoff(max_retries=n)  *)
(* invokes it at most n + 1 times.  It returns the result of the first     *)
(* invocation that does not raise, and invokes nothing after it; when all  *)
(* n + 1 invocations raise an exception of the tuple it raises the last    *)
(* one; an exception outside the tuple leaves the wrapper at once.  The    *)
(* k-th sleep lasts initial_delay * backoff_factor^(k-1), there is one     *)
(* sleep between two invocations and none after the last.                  *)
C29_BoundedRetries ==
    /\ [](Len(invocations) <= max_retries + 1)
    /\ [](EarlierAllListed)
    /\ [](\A k \in DOMAIN sleeps :
            sleeps[k] = initial_delay * Pow(backoff_factor, k - 1))
    /\ [](retry_outcome.kind = "running" =>
            /\ Len(sleeps) = Len(invocations)
            /\ \A i \in DOMAIN invocations : invocations[i].raised)
    /\ [](retry_outcome.kind = "returned" =>
            /\ ~LastInvocation.raised
            /\ retry_outcome.value = LastInvocation.value
            /\ Len(sleeps) = Len(invocations) - 1)
    /\ [](retry_outcome.kind = "raised" =>
            /\ LastInvocation.raised
            /\ retry_outcome.exception = LastInvocation.exception
            /\ Len(sleeps) = Len(invocations) - 1
            /\ Listed(LastInvocation.exception, exceptions)
                  => Len(invocations) = max_retries + 1)
    /\ [][retry_outcome.kind # "running" => invocations' = invocations]_vars

\* three invocations raised, the fourth returned: sleeps of 2, 6 and 18
C29_Witness ==
    /\ func = "flaky"
    /\ max_retries = 3
    /\ retry_outcome.kind = "returned"
    /\ Len(invocations) = 4
    /\ sleeps = <<2, 6, 18>>

\* every invocation raised: the last exception leaves the wrapper
C29_WitnessExhausted ==
    /\ func = "flaky"
    /\ max_retries = 2
    /\ retry_outcome.kind = "raised"
    /\ Len(invocations) = 3
    /\ Len(sleeps) = 2

(* C30: calculate_with_retry retries on failure: when evaluating the       *)
(* expression fails, the calculation is attempted again before the failure *)
(* result is returned to the caller.                                       *)
C30_CalculationRetried ==
    (/\ func = "calculate_with_retry"
     /\ retry_outcome.kind = "returned"
     /\ ~retry_outcome.value.success
     /\ retry_outcome.value.error_type = "execution")
       => Len(invocations) > 1

\* the record the last call of a wrapped tool left
LastTraced == tracer_calls[Len(tracer_calls)]

(* C31: a call of a tool wrapped by ToolTracer.wrap returns the result of  *)
(* the tool when the tool returns, and raises the exception of the tool    *)
(* when the tool raises; either way exactly one ToolCall record is         *)
(* appended, whose success flag and error are those of the call; and the   *)
(* call ids of the records are all different.                              *)
C31_WrappedToolUsedNormally ==
    /\ [][call_counter' = call_counter + 1 =>
            /\ Len(tracer_calls') = Len(tracer_calls) + 1
            /\ SubSeq(tracer_calls', 1, Len(tracer_calls)) = tracer_calls
            /\ LastTraced'.success = (tracer_outcome'.kind = "returned")
            /\ (tracer_outcome'.kind = "returned") =>
                  /\ tracer_outcome'.value = LastTraced'.result
                  /\ LastTraced'.error = "None"
            /\ (tracer_outcome'.kind = "raised") =>
                  /\ tracer_outcome'.exception = tracer_outcome'.tool_exception
                  /\ LastTraced'.error # "None"]_vars
    /\ [](\A i, j \in DOMAIN tracer_calls :
            tracer_calls[i].call_id = tracer_calls[j].call_id => i = j)
    /\ [](call_counter = Len(tracer_calls))

(* C32: whenever _execute_plan dispatches a step with depends_on = D,      *)
(* every agent of D has already produced a result in this task and that    *)
(* result is in the context of the task text sent to the worker, whatever  *)
(* the order of the steps in the plan.                                     *)
C32_DependenciesGivenAsContext ==
    \A i \in DOMAIN dispatched :
        \A k \in DOMAIN dispatched[i].depends_on :
            LET dep_agent == dispatched[i].depends_on[k] IN
            /\ \E j \in 1..(i - 1) : dispatched[j].agent = dep_agent
            /\ \E c \in DOMAIN dispatched[i].context :
                  dispatched[i].context[c] = dep_agent

\* a step of the plan has neither been skipped nor dispatched
StepLost(k) ==
    /\ delegation_plan[k].agent \in ManagerWorkers
    /\ \A i \in DOMAIN dispatched : dispatched[i].at # k

(* C33: process never raises because of a plan step: a step that names an  *)
(* unknown agent is skipped and leaves no result, a worker that raises     *)
(* leaves an Error result and no entry in shared_context, every later step *)
(* is still dispatched and process returns a string; an empty or           *)
(* unparseable plan gives the delegation-failure string and no worker is   *)
(* dispatched.                                                             *)
C33_StepFailuresContained ==
    /\ (manager_outcome.kind = "raised" => manager_outcome.cause # "step")
    /\ DOMAIN manager_results \subseteq ManagerWorkers
    /\ \A a \in DOMAIN manager_results :
          manager_results[a] = "Error" =>
             (a \notin DOMAIN shared_context \/ shared_context[a] # "Error")
    /\ manager_pc = "done" /\ delegation_plan # <<>> =>
          \A k \in DOMAIN delegation_plan : ~StepLost(k)
    /\ (manager_pc = "done" /\ plan_response.kind \in {"text", "bad_json"}) =>
          /\ manager_outcome.text = "Failed to create a delegation plan."
          /\ dispatched = <<>>
    /\ (manager_pc = "done" /\ plan_response.kind = "plan"
          /\ plan_response.steps = <<>>) =>
          /\ manager_outcome.text = "Failed to create a delegation plan."
          /\ dispatched = <<>>

\* the record whose action ReactAct is about to execute
Acting == conversation_history[Len(conversation_history)]

(* C34: a tool failure never ends the ReAct run: when the action is not a  *)
(* registered tool, or the tool raises, _execute_action gives an error     *)
(* string that becomes the observation of the step, and the loop goes on   *)
(* to the next iteration; an iteration that is not final invokes at most   *)
(* one tool.                                                               *)
C34_ToolFailureContinues ==
    /\ [][react_pc = "act" =>
            /\ react_pc' = "think"
            /\ react_result' = react_result
            /\ iteration' = iteration + 1
            /\ tool_calls' \in {tool_calls, tool_calls + 1}
            /\ Len(conversation_history') = Len(conversation_history)
            /\ Acting.action \notin react_tools =>
                  /\ Acting'.observation.kind = "not_found"
                  /\ tool_calls' = tool_calls
            /\ (/\ Acting.action \in react_tools
                /\ ReactToolCall(Acting.action, Acting.action_input).raised) =>
                  /\ Acting'.observation.kind = "error"
                  /\ Acting'.observation.text =
                        ReactToolCall(Acting.action, Acting.action_input).message]_vars
    /\ [](tool_calls <= iteration)
    /\ [](\A i \in DOMAIN conversation_history :
            conversation_history[i].observation.kind
               \in {"none", "result", "not_found", "error"})

\* the calculator raised, then an unregistered tool was asked for, and the
\* run went on to a third reasoning call
C34_Witness ==
    /\ Len(conversation_history) = 3
    /\ conversation_history[1].observation.kind = "error"
    /\ conversation_history[2].observation.kind = "not_found"
    /\ llm_calls = 3
    /\ tool_calls = 1

\* the records of call c that are in self.conversation_history
RecordsOf(c, history) ==
    { <<history[i].owner, history[i].n>> : i \in { j \in DOMAIN history : history[j].owner = c } }

(* C35: two calls of run on one ReactAgent, interleaved at their reasoning *)
(* and tool calls, do not interfere: every prompt a call builds replays    *)
(* only the records that call produced, and no step of one call removes a  *)
(* record of the other call while that call is still running.              *)
C35_InterleavedRunsApart ==
    /\ [](\A c \in DOMAIN calls : \A p \in DOMAIN calls[c].prompts :
             \A i \in DOMAIN calls[c].prompts[p].owners :
                calls[c].prompts[p].owners[i] = c)
    /\ [][\A c \in DOMAIN calls :
             (calls[c].pc \in {"llm", "tool"} /\ calls'[c] = calls[c])
                => RecordsOf(c, shared_history) \subseteq RecordsOf(c, shared_history')]_vars

\* the call of call() in this step ran func, which raised or returned
FuncRaised == func_calls' = func_calls + 1 /\ call_outcome'.kind = "raised"

FuncReturned == func_calls' = func_calls + 1 /\ call_outcome'.kind = "returned"

(* C36: for a breaker built closed with failure_threshold >= 1, after any  *)
(* calls of call(): a closed circuit has failure_count < failure_threshold;*)
(* a closed circuit opens exactly in the call whose failure brings         *)
(* failure_count to failure_threshold; and a successful call on a closed   *)
(* circuit leaves failure_count as it is, so the failures counted need not *)
(* be consecutive.                                                         *)
C36_ClosedBelowThreshold ==
    /\ [](state = "closed" => failure_count < failure_threshold)
    /\ [][state = "closed" =>
            /\ state' = "open" <=>
                  (FuncRaised /\ failure_count' = failure_threshold)
            /\ FuncRaised => failure_count' = failure_count + 1
            /\ FuncReturned =>
                  (failure_count' = failure_count /\ state' = "closed")]_vars

\* a closed circuit with threshold 2 opened by two failures with a success
\* between them
C36_Witness ==
    /\ failure_threshold = 2
    /\ state = "open"
    /\ failure_count = 2
    /\ success_count = 1
    /\ breaker_calls = 3

\* the circuit is open and recovery_timeout has passed since the last failure
Recoverable ==
    /\ state = "open"
    /\ last_failure_time # NoFailure
    /\ now - last_failure_time >= recovery_timeout

(* C37: the first call of call() after recovery_timeout has passed on an   *)
(* open circuit runs func once as a trial; if func returns, the circuit is *)
(* closed with failure_count = 0 and success_count = 0; if func raises,    *)
(* the circuit is open again, last_failure_time is the time of that        *)
(* failure and the exception reaches the caller; and between calls the     *)
(* circuit is closed or open, never half open.                             *)
C37_TrialAfterTimeout ==
    /\ [][(Recoverable /\ breaker_calls' = breaker_calls + 1) =>
            /\ func_calls' = func_calls + 1
            /\ call_outcome'.kind \in {"returned", "raised"}
            /\ call_outcome'.kind = "returned" =>
                  /\ state' = "closed"
                  /\ failure_count' = 0
                  /\ success_count' = 0
                  /\ last_failure_time' = last_failure_time
            /\ call_outcome'.kind = "raised" =>
                  /\ state' = "open"
                  /\ last_failure_time' = now'
                  /\ failure_count' = failure_count + 1]_vars
    /\ [](state \in {"closed", "open"})

\* a trial has closed the circuit after a failure had opened it
C37_Witness ==
    /\ state = "closed"
    /\ last_failure_time # NoFailure
    /\ failure_count = 0
    /\ success_count = 0
    /\ call_outcome.kind = "returned"

\* a trial has failed and the circuit is open again, later than it first opened
C37_WitnessReopened ==
    /\ state = "open"
    /\ failure_count > failure_threshold
    /\ call_outcome.kind = "raised"
    /\ last_failure_time = now
    /\ recovery_timeout > 0

\* self.tokens as _refill leaves it at the time of this step
Refilled == _refill(tokens, last_update, limiter_now, capacity)

\* this step is a call of the method op on the limiter, outside chat
LimiterStep(op) ==
    /\ limiter_now' = limiter_now
    /\ chat_calls' = chat_calls
    /\ limiter_outcome'.op = op

\* this step is a call of chat
ChatStep == chat_calls' = chat_calls + 1

(* C38: with a clock that never goes back, after any calls of can_proceed, *)
(* consume and wait_time the tokens are between 0 and capacity; consume    *)
(* returns True exactly when the refilled bucket holds a whole token, then *)
(* takes exactly one, and returns False taking none; can_proceed and       *)
(* wait_time take none.  A call of chat the limiter refuses returns        *)
(* success = False with retry_after, calls no reasoning client and leaves  *)
(* the metrics as they are.                                                *)
C38_TokenBucket ==
    /\ [](0 <= tokens /\ tokens <= capacity * PerMinute)
    /\ [][LimiterStep("consume") =>
            /\ limiter_outcome'.value = (Refilled >= PerMinute)
            /\ tokens' = IF limiter_outcome'.value THEN Refilled - PerMinute
                         ELSE Refilled]_vars
    /\ [][(LimiterStep("can_proceed") \/ LimiterStep("wait_time")) =>
            tokens' = Refilled]_vars
    /\ [][(ChatStep /\ Refilled < PerMinute) =>
            /\ chat_outcome'.kind = "Rate limit exceeded"
            /\ chat_outcome'.success = FALSE
            /\ chat_outcome'.retry_after.den # 0
            /\ tokens' = Refilled
            /\ llm_requests' = llm_requests
            /\ total_requests' = total_requests
            /\ total_errors' = total_errors]_vars

\* run has returned one of its strings
RunReturned == pc = "done" /\ outcome # "exception"

(* C39: with max_replans >= 0 a call of run that returns gives exactly one *)
(* of the plan-creation failure string, the synthesized answer and the     *)
(* partial-failure answer, and never the trailing 'Unable to complete the  *)
(* task after multiple attempts.'; that string is returned only, and       *)
(* always, when max_replans < 0, and then no planner call and no tool      *)
(* invocation has been made.                                               *)
C39_TrailingReturnUnreachable ==
    /\ (RunReturned /\ max_replans >= 0)
          => outcome \in {"plan_failed", "answer", "partial"}
    /\ (pc = "done" /\ max_replans < 0) => outcome = "unable"
    /\ outcome = "unable" =>
          /\ max_replans < 0
          /\ planner_calls = 0
          /\ executed = <<>>
          /\ execution_results = <<>>
    /\ outcome = "partial" => replans_used = max_replans + 1
    /\ pc = "run_while" => (replans_used <= max_replans \/ max_replans < 0)

\* the partial answer was returned where the loop test would have failed
C39_Witness ==
    /\ pc = "done"
    /\ max_replans >= 0
    /\ replans_used > max_replans
    /\ outcome = "partial"
    /\ planner_calls = max_replans + 1

\* the trailing string was returned by an agent built with max_replans = -1
C39_WitnessUnable == pc = "done" /\ outcome = "unable" /\ max_replans = 0 - 1

====
